---- MODULE Spec2Model ----
(***************************************************************************)
(* Model of the browser session supervisor (BrowserManager) of the         *)
(* perplexity MCP server: launch-option merging and the dangerous-argument *)
(* check, the initialize / cleanup lifecycle with its await points, the    *)
(* recovery-level computation and the search operation that drives them.   *)
(***************************************************************************)
EXTENDS Integers, Sequences, FiniteSets, TLC

(* ------------------------------------------------------------------ *)
(* Bounds of the model                                                 *)
(* ------------------------------------------------------------------ *)

\* initialize() calls in one behaviour
MaxCalls == 2
\* cleanup() calls in one behaviour
MaxCleanups == 1
\* browser handles that may be referenced at once
MaxBrowsers == 3
\* page handles that may be referenced at once
MaxPages == 3
\* performRecovery() calls in one behaviour
MaxRecoveries == 2
\* performSearch() calls in one behaviour
MaxSearches == 2
\* timers that may be pending at once
MaxTimers == 2
\* steps the clock takes in one behaviour
MaxTicks == 4
\* steps of half an expiry window the clock takes beside the session store
MaxSessionTicks == 3
\* calls of the session store in one behaviour
MaxSessionOps == 3
\* updateRequestStats calls on one stats object
MaxUpdates == 10
\* waitForCompleteAnswer calls in one behaviour
MaxAnswerWaits == 2
\* chat_perplexity calls in one behaviour
MaxChats == 2
\* the largest attemptNumber passed to calculateRetryDelay and to
\* calculateExponentialBackoff
MaxAttempt == 6
\* the longest args array passed to deepMerge on its own
MaxArgs == 2
\* the largest increment the fatigue counters add to a retry delay
MaxFatigue == 4000

(* ------------------------------------------------------------------ *)
(* Strings (JavaScript built-ins used by the code)                     *)
(* ------------------------------------------------------------------ *)

StartsWith(s, p) ==
    /\ Len(p) <= Len(s)
    /\ SubSeq(s, 1, Len(p)) = p

Includes(s, sub) ==
    \E i \in 1..(Len(s) + 1) :
        /\ i + Len(sub) - 1 <= Len(s)
        /\ SubSeq(s, i, i + Len(sub) - 1) = sub

UpperAlphabet == "ABCDEFGHIJKLMNOPQRSTUVWXYZ"
LowerAlphabet == "abcdefghijklmnopqrstuvwxyz"

LowerChar(c) ==
    IF \E i \in 1..Len(UpperAlphabet) : SubSeq(UpperAlphabet, i, i) = c
    THEN LET i == CHOOSE j \in 1..Len(UpperAlphabet) : SubSeq(UpperAlphabet, j, j) = c
         IN  SubSeq(LowerAlphabet, i, i)
    ELSE c

\* s.toLowerCase(), character by character (the halves keep the recursion
\* shallow for long messages)
RECURSIVE ToLowerCase(_)
ToLowerCase(s) ==
    IF Len(s) = 0 THEN ""
    ELSE IF Len(s) = 1 THEN LowerChar(s)
    ELSE LET half == Len(s) \div 2
         IN  ToLowerCase(SubSeq(s, 1, half)) \o ToLowerCase(SubSeq(s, half + 1, Len(s)))

\* arg.includes('=') ? arg.split('=')[0] : arg
ArgPrefix(arg) ==
    IF Includes(arg, "=")
    THEN LET i == CHOOSE j \in 1..Len(arg) :
                     /\ SubSeq(arg, j, j) = "="
                     /\ \A k \in 1..(j - 1) : SubSeq(arg, k, k) # "="
         IN  SubSeq(arg, 1, i - 1)
    ELSE arg

SeqIncludes(seq, x) == \E i \in 1..Len(seq) : seq[i] = x

\* [...new Set(seq)]: the first occurrence of every element, in order
RECURSIVE Dedupe(_)
Dedupe(seq) ==
    IF Len(seq) = 0 THEN << >>
    ELSE LET init == Dedupe(SubSeq(seq, 1, Len(seq) - 1))
             last == seq[Len(seq)]
         IN  IF SeqIncludes(init, last) THEN init ELSE Append(init, last)

(* ------------------------------------------------------------------ *)
(* Launch options: objects of which only the args key is modelled      *)
(* ------------------------------------------------------------------ *)

NullOptions  == [isNull |-> TRUE,  hasArgs |-> FALSE, args |-> << >>]
EmptyOptions == [isNull |-> FALSE, hasArgs |-> FALSE, args |-> << >>]
WithArgs(a)  == [isNull |-> FALSE, hasArgs |-> TRUE,  args |-> a]

\* the defaults of the launch call
DefaultLaunchArgs == << "--no-sandbox", "--disable-setuid-sandbox", "--disable-dev-shm-usage" >>


\* options.launchOptions of an initialize() call
CallLaunchOptions ==
    { EmptyOptions,
      WithArgs(<< "--custom-arg" >>),
      WithArgs(<< "--no-sandbox", "--disable-web-security" >>) }

\* process.env.PUPPETEER_LAUNCH_OPTIONS, parsed
EnvConfigs == { EmptyOptions, WithArgs(<< "--single-process" >>) }

Range(seq) == { seq[i] : i \in 1..Len(seq) }

\* the args deepMerge is called with on its own: a flag, the same flag with
\* two values, a flag whose name continues the first one, and a flag with
\* a single dash
MergedArgs ==
    { "--disable-gpu", "--disable-gpu-compositing", "--window-size=800,600",
      "--window-size=1,1", "-incognito" }

\* every argument that occurs in a behaviour
ArgUniverse ==
    Range(DefaultLaunchArgs)
    \cup UNION { Range(o.args) : o \in CallLaunchOptions \cup EnvConfigs }
    \cup MergedArgs


RECURSIVE JoinQuoted(_)
JoinQuoted(seq) ==
    IF Len(seq) = 0 THEN ""
    ELSE IF Len(seq) = 1 THEN "\"" \o seq[1] \o "\""
    ELSE "\"" \o seq[1] \o "\"," \o JoinQuoted(Tail(seq))

JSONStringify(o) ==
    IF o.isNull THEN "null"
    ELSE IF ~o.hasArgs THEN "{}"
    ELSE "{\"args\":[" \o JoinQuoted(o.args) \o "]}"

\* launchArg.startsWith(argPrefix) for an arg that starts with "--"
Overrides(launchArg, arg) ==
    /\ StartsWith(arg, "--")
    /\ StartsWith(launchArg, ArgPrefix(arg))

\* Overrides, computed once over the arguments that occur
OverridesTable == [launchArg \in ArgUniverse, arg \in ArgUniverse |-> Overrides(launchArg, arg)]

\* the filter of deepMerge: a target arg is dropped when some source arg
\* starts with the target arg's flag prefix
KeepTargetArg(arg, sourceVal) ==
    ~ \E i \in 1..Len(sourceVal) : OverridesTable[sourceVal[i], arg]

MergeArgs(targetVal, sourceVal) ==
    Dedupe(SelectSeq(targetVal, LAMBDA arg : KeepTargetArg(arg, sourceVal)) \o sourceVal)

deepMerge(target, source) ==
    IF ~source.hasArgs THEN target
    ELSE IF ~target.hasArgs THEN WithArgs(source.args)
    ELSE WithArgs(MergeArgs(target.args, source.args))

DANGEROUS_ARGS ==
    { "--no-sandbox",
      "--disable-setuid-sandbox",
      "--single-process",
      "--disable-web-security",
      "--ignore-certificate-errors",
      "--disable-features=IsolateOrigins",
      "--disable-site-isolation-trials",
      "--allow-running-insecure-content" }

IsDangerousArg(arg) == \E d \in DANGEROUS_ARGS : StartsWith(arg, d)

\* IsDangerousArg, computed once over the arguments that occur
DangerousTable == [arg \in ArgUniverse |-> IsDangerousArg(arg)]

\* mergedConfig.args.filter(arg => DANGEROUS_ARGS.some(...))
DangerousArgsOf(args) == SelectSeq(args, LAMBDA arg : DangerousTable[arg])

(* ------------------------------------------------------------------ *)
(* Errors: undefined, or an Error with its message                     *)
(* ------------------------------------------------------------------ *)

UndefinedError == [isError |-> FALSE, message |-> ""]
Error(message) == [isError |-> TRUE, message |-> message]

\* dangerousArgs.join(', ')
RECURSIVE JoinComma(_)
JoinComma(seq) ==
    IF Len(seq) = 0 THEN ""
    ELSE IF Len(seq) = 1 THEN seq[1]
    ELSE seq[1] \o ", " \o JoinComma(Tail(seq))

\* the message of the error the security validation throws
DangerousMessage(dangerousArgs) ==
    "Dangerous browser arguments detected: " \o JoinComma(dangerousArgs)
        \o ". Set allowDangerous: true to override."

\* rejections of the browser library
LaunchFailed == "Failed to launch the browser process"
PageFailed   == "Protocol error (Target.createTarget): Target closed"
NullBrowser  == "Cannot read properties of null (reading 'newPage')"

\* failures of the steps of a search
StepErrors ==
    { "A timeout error occurred", "Navigation failed", "Detached", "Search failed" }

\* the error of a performRecovery() call made by a caller
RecoveryErrors ==
    { UndefinedError } \cup
    { Error(m) : m \in StepErrors \cup { "Browser has CRASHED", "WebSocket Disconnected" } }

\* the messages performSearch returns for a failed search
TimeoutResponse ==
    "The search operation is taking longer than expected. This might be due to high server load. Please try again with a more specific query."
NavigationResponse ==
    "The search operation encountered a navigation issue. This might be due to network connectivity problems. Please try again later."
TechnicalResponse ==
    "The search operation encountered a technical issue. Please try again with a more specific query."
GenericResponse(message) ==
    "The search operation could not be completed. Error: " \o message
        \o ". Please try again later with a more specific query."

\* the answer a completed search returns
Answer == "Test answer"

\* determineRecoveryLevel(error) of BrowserManager
\* a faulty variant: the message is matched in the case it was written in
determineRecoveryLevelCaseSensitive(error) ==
    IF ~error.isError THEN 1
    ELSE LET errorMessage == error.message
         IN  IF \/ Includes(errorMessage, "detached")
                \/ Includes(errorMessage, "crashed")
                \/ Includes(errorMessage, "disconnected")
                \/ Includes(errorMessage, "protocol error")
             THEN 3
             ELSE IF \/ Includes(errorMessage, "navigation")
                     \/ Includes(errorMessage, "timeout")
                     \/ Includes(errorMessage, "net::err")
             THEN 2
             ELSE 1

\* a faulty variant: the navigation keywords are looked for first
determineRecoveryLevelNavigationFirst(error) ==
    IF ~error.isError THEN 1
    ELSE LET errorMessage == ToLowerCase(error.message)
         IN  IF \/ Includes(errorMessage, "navigation")
                \/ Includes(errorMessage, "timeout")
                \/ Includes(errorMessage, "net::err")
             THEN 2
             ELSE IF \/ Includes(errorMessage, "detached")
                     \/ Includes(errorMessage, "crashed")
                     \/ Includes(errorMessage, "disconnected")
                     \/ Includes(errorMessage, "protocol error")
             THEN 3
             ELSE 1

determineRecoveryLevel(error) ==
    IF ~error.isError THEN 1
    ELSE LET errorMessage == ToLowerCase(error.message)
         IN  IF \/ Includes(errorMessage, "detached")
                \/ Includes(errorMessage, "crashed")
                \/ Includes(errorMessage, "disconnected")
                \/ Includes(errorMessage, "protocol error")
             THEN 3
             ELSE IF \/ Includes(errorMessage, "navigation")
                     \/ Includes(errorMessage, "timeout")
                     \/ Includes(errorMessage, "net::err")
             THEN 2
             ELSE 1

Calls    == 1..MaxCalls
Browsers == 1..MaxBrowsers
Pages    == 1..MaxPages
Timers   == 1..MaxTimers

\* the idle window
IDLE_TIMEOUT_MS == 5 * 60 * 1000

\* what one step of the clock adds: half an idle window
ClockStep == IDLE_TIMEOUT_MS \div 2

VARIABLES
    browser,                \* this.browser: 0 is null
    page,                   \* this.page: 0 is null
    isInitializing,
    idleTimeout,            \* this.idleTimeout: 0 is null
    previousLaunchOptions,
    launchOptions,
    allowDangerous,
    env,                    \* the process: PUPPETEER_LAUNCH_OPTIONS, ALLOW_DANGEROUS, root
    browserConnected,       \* this.browser.connected
    pageIsClosed,           \* this.page.isClosed()
    pageOwner,              \* the browser this.page belongs to
    timers,                 \* the timers that are pending
    calls,                  \* initialize() calls: position and outcome
    cl,                     \* the cleanup() call: position and outcome
    cleanups,               \* cleanup() calls made so far
    rec,                    \* the performRecovery() call: position, level, error
    recoveries,             \* performRecovery() calls made so far
    ps,                     \* the performSearch() call: position, error, result
    searches,               \* performSearch() calls made so far
    now,                    \* Date.now(), in milliseconds
    files,                  \* the files of the session storage directory, by path
    so,                     \* the call of the session store: position, locals, result
    sessionOps,             \* calls of the session store made so far
    saved,                  \* per session id: what the calls so far did to its session
    rt,                     \* request timing: a RequestStats object and what was computed
    wa,                     \* the waitForCompleteAnswer() call: position, selectors tried
    chat,                   \* chat_perplexity: the stored chats and the call
    lg                      \* the call of a pure function: its arguments and result

fields  == << isInitializing, idleTimeout, previousLaunchOptions, launchOptions,
              allowDangerous >>
\* the host of the program: its process environment and what the utilities work on
host    == << env, now, lg, files, so, sessionOps, saved, rt, wa, chat >>
handles == << browser, page, browserConnected, pageIsClosed, pageOwner >>
bmVars  == << fields, handles, host, timers >>
vars    == << bmVars, calls, cl, cleanups, rec, recoveries, ps, searches >>

IdleCall == [pc |-> "idle", outcome |-> "none", error |-> UndefinedError, target |-> 0,
             unsafe |-> FALSE]
IdleCleanup == [pc |-> "idle", outcome |-> "none", page |-> 0, during |-> { }]
IdleRecovery == [pc |-> "idle", level |-> 0, error |-> UndefinedError, by |-> "caller"]
IdleSearch == [pc |-> "idle", call |-> 0, error |-> UndefinedError, result |-> ""]
\* what an initialize() call of a caller leaves alone
notInitialize == << cl, cleanups, rec, recoveries, ps, searches >>
\* what a cleanup() call leaves alone
notCleanup == << calls, rec, recoveries, ps, searches >>
\* what the browser process leaves alone
notEnvironment == << calls, cl, cleanups, rec, recoveries, ps, searches >>

(* ------------------------------------------------------------------ *)
(* session-manager: the files of the session store                     *)
(* ------------------------------------------------------------------ *)

\* CONFIG.SESSION_STORAGE_DIR and CONFIG.SESSION_EXPIRY_HOURS
SESSION_STORAGE_DIR == "./session-storage"
SESSION_EXPIRY_HOURS == 24

\* (CONFIG.SESSION_EXPIRY_HOURS || 24) * 60 * 60 * 1000
expiryMs == SESSION_EXPIRY_HOURS * 60 * 60 * 1000

\* what one step of the clock adds beside the session store
SessionClockStep == expiryMs \div 2

\* path.join(dir, file) for a file name without separators: the leading
\* "./" of the directory is normalised away
join(dir, file) ==
    (IF StartsWith(dir, "./") THEN SubSeq(dir, 3, Len(dir)) ELSE dir) \o "/" \o file

\* a faulty variant: every session id is given the same file
getSessionPathOneFile(sessionId) == join(SESSION_STORAGE_DIR, "alice.json")

\* getSessionPath(sessionId)
getSessionPath(sessionId) == join(SESSION_STORAGE_DIR, sessionId \o ".json")

\* file.endsWith(".json")
EndsWith(str, suffix) ==
    /\ Len(str) >= Len(suffix)
    /\ SubSeq(str, Len(str) - Len(suffix) + 1, Len(str)) = suffix

\* the session ids callers use
SessionIds == { "alice", "bob" }

\* the names a directory listing may return: the session files and a file
\* that is none
FileNames == { id \o ".json" : id \in SessionIds } \cup { "notes.txt" }

\* the cookies page.cookies() may return, in the order it returns them
Cookie(name, value) == [name |-> name, value |-> value]
CookieLists ==
    { << >>,
      << Cookie("sid", "s1"), Cookie("cf_clearance", "x1") >> }

\* window.localStorage of the page: its keys in order, with their values
PageStorages ==
    { << >>,
      << << "", "orphan" >>, << "theme", "dark" >> >> }

\* the object the page.evaluate callback of saveSessionCookies builds:
\* entries with an empty key are left out
ReadLocalStorage(pageStorage) ==
    LET Keep(entry) == entry[1] # ""
    IN  SelectSeq(pageStorage, Keep)

\* JSON text: an object as its members in order; a text that is cut short
\* or otherwise no JSON is not valid
JSONObject(members) == [valid |-> TRUE, members |-> members]
NotJSON == [valid |-> FALSE, members |-> << >>]

\* a faulty variant: the cookies are written last to first
JSONStringifySessionReversed(session) ==
    JSONObject(<< << "cookies", [i \in 1..Len(session.cookies) |->
                                    session.cookies[Len(session.cookies) + 1 - i]] >>,
                  << "localStorage", session.localStorage >>,
                  << "timestamp", session.timestamp >> >>)

\* JSON.stringify(session, null, 2)
JSONStringifySession(session) ==
    JSONObject(<< << "cookies", session.cookies >>,
                  << "localStorage", session.localStorage >>,
                  << "timestamp", session.timestamp >> >>)

\* the value of a member of a parsed object
Member(members, key) ==
    LET i == CHOOSE i \in 1..Len(members) : members[i][1] = key
    IN  members[i][2]

\* JSON.parse(sessionData) read as a StoredSession
JSONParseSession(text) ==
    [cookies |-> Member(text.members, "cookies"),
     localStorage |-> Member(text.members, "localStorage"),
     timestamp |-> Member(text.members, "timestamp")]

\* a file of the directory, and a path that holds none
File(text, mtimeMs) == [exists |-> TRUE, text |-> text, mtimeMs |-> mtimeMs]
NoFile == [exists |-> FALSE, text |-> NotJSON, mtimeMs |-> 0]

\* the paths of the directory
Paths == { join(SESSION_STORAGE_DIR, name) : name \in FileNames }

\* the directory as the program finds it: no session yet, and a file that
\* is no session and is older than any session will be
EmptyStore ==
    [path \in Paths |->
         IF path = join(SESSION_STORAGE_DIR, "notes.txt") THEN File(NotJSON, 0) ELSE NoFile]

\* fs.readdir(dir): the names of the files that exist, in directory order
RECURSIVE ListNames(_)
ListNames(names) ==
    IF names = { } THEN << >>
    ELSE LET first == CHOOSE n \in names : \A m \in names : Len(n) <= Len(m)
         IN  << first >> \o ListNames(names \ { first })

readdir == ListNames({ name \in FileNames : files[join(SESSION_STORAGE_DIR, name)].exists })

\* the call made before a call: which, when, and whether a step of it failed
NoCallBefore == [op |-> "none", startedAt |-> 0, failed |-> FALSE, deletedCount |-> 0]

\* no call of the session store has been made
NoSessionCall ==
    [op |-> "none", pc |-> "done", sessionId |-> "", cookies |-> << >>,
     localStorage |-> << >>, timestamp |-> 0, queue |-> << >>, deletedCount |-> 0,
     existed |-> FALSE, age |-> 0, applied |-> << >>, failed |-> FALSE,
     unlogged |-> FALSE, result |-> "none", startedAt |-> 0, before |-> NoCallBefore]

\* what is known of the session of an id: nothing stored yet, the session a
\* save wrote, a removal by deleteSession or by expiry, or a write that
\* failed part-way
NoSession == [state |-> "none", cookies |-> << >>, localStorage |-> << >>, timestamp |-> 0]

InitSessionStore ==
    /\ files = EmptyStore
    /\ so = NoSessionCall
    /\ sessionOps = 0
    /\ saved = [id \in SessionIds |-> NoSession]

\* no pure function has been called
(* ------------------------------------------------------------------ *)
(* JavaScript numbers: IEEE 754 binary64, non-negative values            *)
(* ------------------------------------------------------------------ *)

\* the bits of the significand of a double
SIGNIFICAND_BITS == 53
\* extra quotient bits a division carries before it rounds
GUARD_BITS == 6

\* a natural number as its bits, lowest first, and back
RECURSIVE NatBits(_)
NatBits(n) == IF n = 0 THEN << >> ELSE << n % 2 >> \o NatBits(n \div 2)

RECURSIVE BitsNat(_)
BitsNat(bits) == IF bits = << >> THEN 0 ELSE Head(bits) + 2 * BitsNat(Tail(bits))

\* without its high zeros
Trim(bits) ==
    LET set == { i \in 1..Len(bits) : bits[i] = 1 }
    IN  IF set = { } THEN << >>
        ELSE SubSeq(bits, 1, CHOOSE i \in set : \A j \in set : j <= i)

Zeros(k) == [i \in 1..k |-> 0]
ShiftLeft(bits, k) == IF bits = << >> THEN << >> ELSE Zeros(k) \o bits

\* the halves of a sequence of bits
LowHalf(bits) == SubSeq(bits, 1, Len(bits) \div 2)
HighHalf(bits) == SubSeq(bits, Len(bits) \div 2 + 1, Len(bits))

\* a + b + carry for a and b of one length: the sum bits and the carry out;
\* the carry of the low half is known before the high half is added
RECURSIVE AddWith(_, _, _)
AddWith(a, b, carry) ==
    IF Len(a) = 0 THEN [bits |-> << >>, carry |-> carry]
    ELSE IF Len(a) = 1
    THEN [bits |-> << (a[1] + b[1] + carry) % 2 >>, carry |-> (a[1] + b[1] + carry) \div 2]
    ELSE LET low == AddWith(LowHalf(a), LowHalf(b), carry)
         IN  IF low.carry = 0
             THEN LET high == AddWith(HighHalf(a), HighHalf(b), 0)
                  IN  [bits |-> low.bits \o high.bits, carry |-> high.carry]
             ELSE LET high == AddWith(HighHalf(a), HighHalf(b), 1)
                  IN  [bits |-> low.bits \o high.bits, carry |-> high.carry]

\* a + b + carry
AddCarry(a, b, carry) ==
    LET len == IF Len(a) >= Len(b) THEN Len(a) ELSE Len(b)
        sum == AddWith(a \o Zeros(len - Len(a)), b \o Zeros(len - Len(b)), carry)
    IN  sum.bits \o NatBits(sum.carry)

\* a * k + carry for a small k: the product bits and the carry out
RECURSIVE MulWith(_, _, _)
MulWith(a, k, carry) ==
    IF Len(a) = 0 THEN [bits |-> << >>, carry |-> carry]
    ELSE IF Len(a) = 1
    THEN [bits |-> << (a[1] * k + carry) % 2 >>, carry |-> (a[1] * k + carry) \div 2]
    ELSE LET low == MulWith(LowHalf(a), k, carry)
         IN  CHOOSE product \in
                 { [bits |-> low.bits \o high.bits, carry |-> high.carry] :
                       high \in { MulWith(HighHalf(a), k, c) : c \in { low.carry } } } : TRUE

MulCarry(a, k, carry) ==
    LET product == MulWith(a, k, carry)
    IN  product.bits \o NatBits(product.carry)

\* quotient and remainder by a small k of a with the remainder r of the
\* bits above it
RECURSIVE DivWith(_, _, _)
DivWith(r, a, k) ==
    IF Len(a) = 0 THEN [q |-> << >>, r |-> r]
    ELSE IF Len(a) = 1
    THEN [q |-> << (2 * r + a[1]) \div k >>, r |-> (2 * r + a[1]) % k]
    ELSE LET high == DivWith(r, HighHalf(a), k)
         IN  CHOOSE division \in
                 { [q |-> low.q \o high.q, r |-> low.r] :
                       low \in { DivWith(above, LowHalf(a), k) : above \in { high.r } } } : TRUE

DivSmall(a, k) == DivWith(0, a, k)

\* a double: significand m (53 bits, the highest set) times 2^e; zero
Zero == [m |-> << >>, e |-> 0]

\* the double nearest to n * 2^e, ties to even; inexact tells that n was
\* cut off below its lowest bit
RoundToDouble(n, e, inexact) ==
    LET bits == Trim(n)
        len == Len(bits)
        drop == len - SIGNIFICAND_BITS
    IN  IF len = 0 THEN Zero
        ELSE IF drop <= 0 THEN [m |-> Zeros(-drop) \o bits, e |-> e + drop]
        ELSE LET kept == SubSeq(bits, drop + 1, len)
                 rest == inexact \/ \E i \in 1..(drop - 1) : bits[i] = 1
                 up == bits[drop] = 1 /\ (rest \/ kept[1] = 1)
                 rounded == IF up THEN AddCarry(kept, << >>, 1) ELSE kept
             IN  IF Len(rounded) > SIGNIFICAND_BITS
                 THEN [m |-> Tail(rounded), e |-> e + drop + 1]
                 ELSE [m |-> rounded, e |-> e + drop]

\* Number(n) for a natural number n
Double(n) == RoundToDouble(NatBits(n), 0, FALSE)

\* x * k, x + d and x / k for natural numbers k and d
Multiply(x, k) == RoundToDouble(MulCarry(x.m, k, 0), x.e, FALSE)

Add(x, d) ==
    IF x.e >= 0
    THEN RoundToDouble(AddCarry(ShiftLeft(x.m, x.e), NatBits(d), 0), 0, FALSE)
    ELSE RoundToDouble(AddCarry(x.m, ShiftLeft(NatBits(d), -x.e), 0), x.e, FALSE)

Divide(x, k) ==
    LET d == DivSmall(ShiftLeft(x.m, GUARD_BITS), k)
    IN  RoundToDouble(d.q, x.e - GUARD_BITS, d.r > 0)

\* Math.floor(x), for x below 2^31
Floor(x) ==
    IF x.e >= 0 THEN BitsNat(ShiftLeft(x.m, x.e))
    ELSE IF -x.e >= Len(x.m) THEN 0
    ELSE BitsNat(SubSeq(x.m, 1 - x.e, Len(x.m)))

\* x < c for a natural number c
LessThan(x, c) == Floor(x) < c

NoLogic == [fn |-> "none"]

InitBrowserManager ==
    /\ browser = 0
    /\ page = 0
    /\ isInitializing = FALSE
    /\ idleTimeout = 0
    /\ previousLaunchOptions = NullOptions
    /\ launchOptions = EmptyOptions
    /\ allowDangerous = FALSE
    /\ env \in [config : EnvConfigs, allowDangerous : BOOLEAN, isRoot : BOOLEAN]
    /\ browserConnected = FALSE
    /\ pageIsClosed = FALSE
    /\ pageOwner = 0
    /\ timers = { }
    /\ calls = [c \in Calls |-> IdleCall]
    /\ cl = IdleCleanup
    /\ cleanups = 0
    /\ rec = IdleRecovery
    /\ recoveries = 0
    /\ ps = IdleSearch
    /\ searches = 0

(* ------------------------------------------------------------------ *)
(* SearchEngine.waitForCompleteAnswer: the response selectors           *)
(* ------------------------------------------------------------------ *)

\* the response selectors, in the order they are tried
RESPONSE_SELECTORS ==
    << ".prose", "[class*=\"prose\"]", "[class*=\"answer\"]", "[class*=\"result\"]" >>

NO_RESPONSE_MESSAGE == "No response elements found on page"

\* what extractCompleteAnswer makes of the page
Answers == { "Final answer",
             "No answer content found. The website may be experiencing issues." }

LogEntry(level, message) == [level |-> level, message |-> message]

\* no call of waitForCompleteAnswer has been made
IdleWait ==
    [pc |-> "idle", present |-> {}, index |-> 0, tried |-> << >>, rejected |-> {},
     found |-> "", outcome |-> "none", result |-> "", error |-> UndefinedError,
     log |-> << >>, calls |-> 0]

(* ------------------------------------------------------------------ *)
(* chat_perplexity: the handler of the server and the tool              *)
(* ------------------------------------------------------------------ *)

\* the chats a caller may name, and the one crypto.randomUUID() names
ChatIds == { "chat-1", "chat-2" }
NO_CHAT_ID == "undefined"
RandomUUID == "4f0c2a9e-6d1b-4c57-9e3a-2b8d5f7a1c46"

ChatMessage(role, content) == [role |-> role, content |-> content]

Messages == { "What is TLA+?", "Who wrote it?" }

\* the history a chat may hold when the server starts
StoredHistories ==
    { << >>,
      << ChatMessage("user", "What is a model?"),
         ChatMessage("assistant", "A description of a system.") >> }

\* databaseManager.getChatHistory(chatId): the messages in stored order
getChatHistory(db, chatId) == db[chatId]

\* databaseManager.saveChatMessage(chatId, role, content)
saveChatMessage(db, chatId, role, content) ==
    [db EXCEPT ![chatId] = Append(db[chatId], ChatMessage(role, content))]

RECURSIVE ConversationPrompt(_, _)
\* conversationPrompt of chatPerplexity: one line per message of the
\* history and one for the new message
ConversationPrompt(history, message) ==
    IF Len(history) = 0 THEN "User: " \o message \o "\n"
    ELSE (IF history[1].role = "user" THEN "User: " \o history[1].content \o "\n"
          ELSE "Assistant: " \o history[1].content \o "\n")
             \o ConversationPrompt(Tail(history), message)

\* no chat_perplexity call has been made
IdleChat(db) ==
    [db |-> db, pc |-> "idle", message |-> "", chat_id |-> NO_CHAT_ID, before |-> << >>,
     submitted |-> << >>, searchResult |-> "", conversationPrompt |-> "",
     result |-> "", calls |-> 0]

InitTools ==
    /\ wa = IdleWait
    /\ chat = IdleChat([id \in ChatIds \cup { RandomUUID } |-> << >>])

(* ------------------------------------------------------------------ *)
(* request-timing: the stats object and the values computed from it     *)
(* ------------------------------------------------------------------ *)

\* Math.random(), in thousandths: 0 <= random < 1
Randoms == { 0, 500, 999 }
RandomEnds == { 0, 999 }

\* the response durations callers report, in milliseconds
Durations == { 1, 500, 3000 }

\* initializeRequestStats()
initializeRequestStats ==
    [totalRequests |-> 0, averageResponseTime |-> Zero, lastRequestTime |-> now,
     minDelay |-> 100, maxDelay |-> 2500]

\* a stats object a caller put together itself, no request counted
HandMadeStats ==
    [totalRequests |-> 0, averageResponseTime |-> Double(5000), lastRequestTime |-> 0,
     minDelay |-> 1000, maxDelay |-> 50]

\* nothing has been computed yet
NoOutput == [fn |-> "none"]

\* the stats object, whether initializeRequestStats made it, the durations
\* reported for it (how many, and their sum), and the value last returned
RequestTiming(stats, made) ==
    [stats |-> stats, made |-> made, updates |-> 0, sum |-> 0, out |-> NoOutput]

InitRequestTiming == rt = RequestTiming(initializeRequestStats, TRUE)

\* a faulty variant: a response time of exactly 500 ms still counts as quick
baseDelayQuickAt500(averageResponseTime) ==
    IF LessThan(averageResponseTime, 501) THEN 200
    ELSE IF LessThan(averageResponseTime, 2000) THEN 500
    ELSE 1000

\* baseDelay of calculateAdaptiveDelay
baseDelay(averageResponseTime) ==
    IF LessThan(averageResponseTime, 500) THEN 200
    ELSE IF LessThan(averageResponseTime, 2000) THEN 500
    ELSE 1000

MinOf(a, b) == IF a <= b THEN a ELSE b
MaxOf(a, b) == IF a >= b THEN a ELSE b

\* a faulty variant: no case for the first request
calculateAdaptiveDelayNoFirstCase(stats, random) ==
    LET requestFatigueFactor == MinOf(stats.totalRequests * 50, 500)
        randomFactor == 500 + random
        delay == (baseDelay(stats.averageResponseTime) + requestFatigueFactor) * randomFactor
    IN  MaxOf(stats.minDelay * 1000, MinOf(stats.maxDelay * 1000, delay))

\* calculateAdaptiveDelay(stats) with the value Math.random() gave it; the
\* delay is in thousandths of a millisecond
calculateAdaptiveDelay(stats, random) ==
    IF stats.totalRequests = 0 THEN 100 * 1000 + random * 200
    ELSE LET requestFatigueFactor == MinOf(stats.totalRequests * 50, 500)
             randomFactor == 500 + random
             delay == (baseDelay(stats.averageResponseTime) + requestFatigueFactor)
                          * randomFactor
         IN  MaxOf(stats.minDelay * 1000, MinOf(stats.maxDelay * 1000, delay))

\* updateRequestStats(stats, responseDuration)
updateRequestStats(stats, responseDuration) ==
    LET totalRequests == stats.totalRequests + 1
    IN  [stats EXCEPT
            !.totalRequests = totalRequests,
            !.lastRequestTime = now,
            !.averageResponseTime =
                Divide(Add(Multiply(stats.averageResponseTime, totalRequests - 1),
                           responseDuration),
                       totalRequests)]

\* generateNetworkProfile() with the five values Math.random() gave it; the
\* delays are in thousandths of a millisecond, the factors in millionths
generateNetworkProfile(r1, r2, r3, r4, r5) ==
    [minRequestDelay |-> 100 * 1000 + r1 * 300,
     maxRequestDelay |-> 1500 * 1000 + r2 * 1500,
     requestVariability |-> 300 * 1000 + r3 * 400,
     responseTimeMultiplier |-> 800 * 1000 + r4 * 400,
     readingPaceMultiplier |-> 700 * 1000 + r5 * 600]

\* what request timing leaves alone
notTiming == << fields, handles, env, now, timers, calls, cl, cleanups, rec, recoveries,
                ps, searches, files, so, sessionOps, saved, lg, wa, chat >>

UpdateRequestStats(responseDuration) ==
    /\ rt.updates < MaxUpdates
    /\ rt' = [rt EXCEPT !.stats = updateRequestStats(rt.stats, responseDuration),
                        !.updates = rt.updates + 1,
                        !.sum = rt.sum + responseDuration,
                        !.out = [fn |-> "updateRequestStats"]]
    /\ UNCHANGED notTiming

CalculateAdaptiveDelay(random) ==
    /\ rt' = [rt EXCEPT !.out = [fn |-> "calculateAdaptiveDelay", random |-> random,
                                 delay |-> calculateAdaptiveDelay(rt.stats, random)]]
    /\ UNCHANGED notTiming

GenerateNetworkProfile(r1, r2, r3, r4, r5) ==
    /\ rt' = [rt EXCEPT !.out = [fn |-> "generateNetworkProfile",
                                 profile |-> generateNetworkProfile(r1, r2, r3, r4, r5)]]
    /\ UNCHANGED notTiming

\* the stats object is one of initializeRequestStats or a hand-made one
InitTiming ==
    /\ InitBrowserManager
    /\ env = [config |-> EmptyOptions, allowDangerous |-> FALSE, isRoot |-> FALSE]
    /\ InitSessionStore
    /\ now = 0
    /\ lg = NoLogic
    /\ InitTools
    /\ rt \in { RequestTiming(initializeRequestStats, TRUE), RequestTiming(HandMadeStats, FALSE) }

NextTiming ==
    \/ \E responseDuration \in Durations : UpdateRequestStats(responseDuration)
    \/ \E random \in Randoms : CalculateAdaptiveDelay(random)
    \/ \E r1, r2, r3, r4, r5 \in RandomEnds : GenerateNetworkProfile(r1, r2, r3, r4, r5)

SpecTiming == InitTiming /\ [][NextTiming]_vars

(* ------------------------------------------------------------------ *)
(* SearchEngine.waitForCompleteAnswer: the call                         *)
(* ------------------------------------------------------------------ *)

\* what waitForCompleteAnswer leaves alone
notAnswer == << fields, handles, env, now, timers, calls, cl, cleanups, rec, recoveries,
                ps, searches, files, so, sessionOps, saved, lg, rt, chat >>

\* waitForCompleteAnswer(page) is called on a page that shows the elements of
\* some selectors: page.waitForSelector of the first selector is awaited
WaitForCompleteAnswer(present) ==
    /\ wa.pc \in { "idle", "done" }
    /\ wa.calls < MaxAnswerWaits
    /\ wa' = [IdleWait EXCEPT !.pc = "waitForSelector", !.present = present,
                              !.index = 1,
                              !.tried = << RESPONSE_SELECTORS[1] >>,
                              !.calls = wa.calls + 1]
    /\ UNCHANGED notAnswer

\* the page renders the element of one more selector while the call waits
PageRenders(selector) ==
    /\ wa.pc = "waitForSelector"
    /\ selector \notin wa.present
    /\ wa' = [wa EXCEPT !.present = wa.present \cup { selector }]
    /\ UNCHANGED notAnswer

\* page.waitForSelector resolved: the selector is logged and
\* extractCompleteAnswer is awaited
WaitForSelectorResolves ==
    /\ wa.pc = "waitForSelector"
    /\ RESPONSE_SELECTORS[wa.index] \in wa.present
    /\ wa' = [wa EXCEPT
                 !.pc = "extractCompleteAnswer",
                 !.found = RESPONSE_SELECTORS[wa.index],
                 !.log = Append(wa.log,
                                LogEntry("info", "Found response with selector: "
                                                     \o RESPONSE_SELECTORS[wa.index]))]
    /\ UNCHANGED notAnswer

\* a faulty variant: with every selector exhausted a value is returned
WaitForSelectorRejectsSwallowed ==
    /\ wa.pc = "waitForSelector"
    /\ RESPONSE_SELECTORS[wa.index] \notin wa.present
    /\ LET selector == RESPONSE_SELECTORS[wa.index]
           warned == Append(wa.log, LogEntry("warn", "Selector " \o selector
                                                         \o " not found, trying next..."))
       IN  IF wa.index < Len(RESPONSE_SELECTORS)
           THEN wa' = [wa EXCEPT !.index = wa.index + 1,
                                 !.tried = Append(wa.tried, RESPONSE_SELECTORS[wa.index + 1]),
                                 !.rejected = wa.rejected \cup { selector },
                                 !.log = warned]
           ELSE wa' = [wa EXCEPT !.pc = "done",
                                 !.rejected = wa.rejected \cup { selector },
                                 !.outcome = "returned",
                                 !.result = "",
                                 !.log = warned]
    /\ UNCHANGED notAnswer

\* page.waitForSelector rejected when its timeout ran out: a warning is
\* logged and the next selector is awaited; after the last selector the
\* error is logged and thrown
WaitForSelectorRejects ==
    /\ wa.pc = "waitForSelector"
    /\ RESPONSE_SELECTORS[wa.index] \notin wa.present
    /\ LET selector == RESPONSE_SELECTORS[wa.index]
           warned == Append(wa.log, LogEntry("warn", "Selector " \o selector
                                                         \o " not found, trying next..."))
       IN  IF wa.index < Len(RESPONSE_SELECTORS)
           THEN wa' = [wa EXCEPT !.index = wa.index + 1,
                                 !.tried = Append(wa.tried, RESPONSE_SELECTORS[wa.index + 1]),
                                 !.rejected = wa.rejected \cup { selector },
                                 !.log = warned]
           ELSE wa' = [wa EXCEPT !.pc = "done",
                                 !.rejected = wa.rejected \cup { selector },
                                 !.outcome = "threw",
                                 !.error = Error(NO_RESPONSE_MESSAGE),
                                 !.log = Append(warned,
                                                LogEntry("error",
                                                         "No response selectors found"))]
    /\ UNCHANGED notAnswer

\* extractCompleteAnswer resolved: its answer is returned
ExtractCompleteAnswerResolves(answer) ==
    /\ wa.pc = "extractCompleteAnswer"
    /\ wa' = [wa EXCEPT !.pc = "done", !.outcome = "returned", !.result = answer]
    /\ UNCHANGED notAnswer

NextAnswer ==
    \/ \E present \in SUBSET Range(RESPONSE_SELECTORS) : WaitForCompleteAnswer(present)
    \/ \E selector \in Range(RESPONSE_SELECTORS) : PageRenders(selector)
    \/ WaitForSelectorResolves
    \/ WaitForSelectorRejects
    \/ \E answer \in Answers : ExtractCompleteAnswerResolves(answer)

\* a page on which no answer has been waited for
InitAnswer ==
    /\ InitBrowserManager
    /\ env = [config |-> EmptyOptions, allowDangerous |-> FALSE, isRoot |-> FALSE]
    /\ InitSessionStore
    /\ now = 0
    /\ InitRequestTiming
    /\ lg = NoLogic
    /\ InitTools

SpecAnswer == InitAnswer /\ [][NextAnswer]_vars

(* ------------------------------------------------------------------ *)
(* chat_perplexity: the call                                            *)
(* ------------------------------------------------------------------ *)

\* what chat_perplexity leaves alone
notChat == << fields, handles, env, now, timers, calls, cl, cleanups, rec, recoveries,
              ps, searches, files, so, sessionOps, saved, lg, rt, wa >>

\* the chat the call is about: chat_id, or a random UUID without one
ChatOf(call) == IF call.chat_id = NO_CHAT_ID THEN RandomUUID ELSE call.chat_id

\* handleChatPerplexity(args): searchEngine.performSearch(typedArgs.message)
\* is awaited
HandleChatPerplexity(message, chat_id) ==
    /\ chat.pc \in { "idle", "done" }
    /\ chat.calls < MaxChats
    /\ chat' = [chat EXCEPT !.pc = "performSearch",
                            !.message = message,
                            !.chat_id = chat_id,
                            !.before = chat.db[IF chat_id = NO_CHAT_ID THEN RandomUUID
                                               ELSE chat_id],
                            !.submitted = << message >>,
                            !.searchResult = "", !.conversationPrompt = "",
                            !.result = "",
                            !.calls = chat.calls + 1]
    /\ UNCHANGED notChat

\* performSearch resolved, with the answer or with the text of an error
\* response: chatPerplexity reads the history, saves the user's message,
\* builds conversationPrompt and awaits the performSearch it was given, which
\* resolves to searchResult whatever prompt it is called with
ChatSearchResolves(searchResult) ==
    /\ chat.pc = "performSearch"
    /\ LET history == getChatHistory(chat.db, ChatOf(chat))
       IN  chat' = [chat EXCEPT
                       !.pc = "chatPerplexity",
                       !.searchResult = searchResult,
                       !.db = saveChatMessage(chat.db, ChatOf(chat), "user", chat.message),
                       !.conversationPrompt = ConversationPrompt(history, chat.message)]
    /\ UNCHANGED notChat

\* the awaited promise resolved: chatPerplexity and the handler return it
ChatReturns ==
    /\ chat.pc = "chatPerplexity"
    /\ chat' = [chat EXCEPT !.pc = "done", !.result = chat.searchResult]
    /\ UNCHANGED notChat

SearchResults == { Answer, GenericResponse("Search failed") }

NextChat ==
    \/ \E message \in Messages, chat_id \in ChatIds \cup { NO_CHAT_ID } :
           HandleChatPerplexity(message, chat_id)
    \/ \E searchResult \in SearchResults : ChatSearchResolves(searchResult)
    \/ ChatReturns

\* a server whose store holds earlier chats
InitChat ==
    /\ InitBrowserManager
    /\ env = [config |-> EmptyOptions, allowDangerous |-> FALSE, isRoot |-> FALSE]
    /\ InitSessionStore
    /\ now = 0
    /\ InitRequestTiming
    /\ lg = NoLogic
    /\ wa = IdleWait
    /\ chat \in { IdleChat([id \in ChatIds \cup { RandomUUID } |->
                               IF id = "chat-1" THEN stored ELSE << >>]) :
                      stored \in StoredHistories }

SpecChat == InitChat /\ [][NextChat]_vars

Init ==
    /\ InitBrowserManager
    /\ InitSessionStore
    /\ now = 0
    /\ InitRequestTiming
    /\ InitTools
    /\ lg = NoLogic

\* handles some part of the program still refers to
BrowsersInUse == { browser, pageOwner } \cup { calls[c].target : c \in Calls }
PagesInUse    == { page, cl.page }

HasFreshBrowser == Browsers \ BrowsersInUse # { }
FreshBrowser == CHOOSE b \in Browsers \ BrowsersInUse : \A o \in Browsers \ BrowsersInUse : b <= o
HasFreshPage == Pages \ PagesInUse # { }
FreshPage == CHOOSE p \in Pages \ PagesInUse : \A o \in Pages \ PagesInUse : p <= o

(* ------------------------------------------------------------------ *)
(* BrowserManager                                                      *)
(* ------------------------------------------------------------------ *)

\* a faulty variant: a closed page still counts as ready
isReadyDespiteClosedPage ==
    /\ browser # 0
    /\ page # 0
    /\ ~isInitializing

isReady ==
    /\ browser # 0
    /\ page # 0
    /\ ~pageIsClosed
    /\ ~isInitializing

\* mergedConfig of ensureBrowser: the environment config merged with the
\* instance options, plus --no-sandbox when running as root
MergedConfig(instanceOptions) ==
    LET m == deepMerge(env.config, instanceOptions)
    IN  IF env.isRoot
        THEN IF ~m.hasArgs THEN WithArgs(<< "--no-sandbox" >>)
             ELSE IF SeqIncludes(m.args, "--no-sandbox") THEN m
             ELSE WithArgs(Append(m.args, "--no-sandbox"))
        ELSE m

\* this.launchOptions after the synchronous part of ensureBrowser: when the
\* environment config has no args, mergedConfig.args is the very array of
\* this.launchOptions.args, so the push of --no-sandbox is seen through it
InstanceOptionsAfter(options) ==
    LET lo == deepMerge(launchOptions, options)
    IN  IF env.isRoot /\ ~env.config.hasArgs /\ lo.hasArgs
        THEN MergedConfig(lo)
        ELSE lo

\* a faulty variant: the override of the previous call is still in force
OverrideRetained(allow) == allow \/ allowDangerous \/ env.allowDangerous

\* an override is set: allowDangerous of this call, or ALLOW_DANGEROUS
Override(allow) == allow \/ env.allowDangerous

\* a faulty variant: ALLOW_DANGEROUS of the environment is not consulted
RejectsDangerousDespiteEnvironment(merged, allow) ==
    /\ merged.hasArgs
    /\ Len(DangerousArgsOf(merged.args)) > 0
    /\ ~allow

\* the security validation of ensureBrowser throws
RejectsDangerous(merged, allow) ==
    /\ merged.hasArgs
    /\ Len(DangerousArgsOf(merged.args)) > 0
    /\ ~Override(allow)

\* the browser is stale: disconnected, or the launch options changed
MustClose(instanceOptions) ==
    \/ (browser # 0 /\ ~browserConnected)
    \/ JSONStringify(instanceOptions) # JSONStringify(previousLaunchOptions)

\* deepMerge(launchArgs, mergedConfig).args
FinalLaunchArgs(merged) == deepMerge(WithArgs(DefaultLaunchArgs), merged).args

\* a launch with a dangerous flag among its args and no override set
UnsafeLaunch(args, allow) ==
    /\ Len(DangerousArgsOf(args)) > 0
    /\ ~Override(allow)

\* this.browser = null; this.page = null
DropHandles ==
    /\ browser' = 0
    /\ page' = 0
    /\ browserConnected' = FALSE
    /\ pageIsClosed' = FALSE
    /\ pageOwner' = 0

(* ------------------------------------------------------------------ *)
(* initialize() and ensureBrowser(): one action per run between awaits *)
(* ------------------------------------------------------------------ *)

\* performSearch() may be called: no other call of it is in progress
SearchMayStart ==
    /\ ps.pc \in { "idle", "returned" }
    /\ searches < MaxSearches

\* performSearch: if (!this.browserManager.isReady())
SearchNeedsInitialize == ~isReady

Call(pc, outcome, error, target, unsafe) ==
    [pc |-> pc, outcome |-> outcome, error |-> error, target |-> target, unsafe |-> unsafe]

\* the next initialize() call to be made is call c; performSearch makes it
\* only when isReady() is false
NextCall(c, by) ==
    /\ calls[c].pc = "idle"
    /\ \A d \in 1..(c - 1) : calls[d].pc # "idle"
    /\ by = "search" => SearchMayStart /\ SearchNeedsInitialize

\* performSearch after its await of initialize(): a rejection lands in the
\* catch block, otherwise the search navigates
AfterInitialize(c, call) ==
    IF call.outcome = "rejected"
    THEN [pc |-> "caught", call |-> c, error |-> call.error, result |-> ""]
    ELSE [pc |-> "navigate", call |-> c, error |-> UndefinedError, result |-> ""]

\* initialize() runs up to its first await, or all the way when nothing is
\* awaited on its path
StartCall(c, by, call) ==
    /\ calls' = [calls EXCEPT ![c] = call]
    /\ IF by = "search"
       THEN /\ ps' = IF call.pc \in { "skipped", "done" }
                     THEN AfterInitialize(c, call)
                     ELSE [pc |-> "initialize", call |-> c, error |-> UndefinedError,
                           result |-> ""]
            /\ searches' = searches + 1
            /\ UNCHANGED << cl, cleanups, rec, recoveries >>
       ELSE UNCHANGED notInitialize

\* initialize() resumes after an await and awaits again
ResumeCall(c, call) ==
    /\ calls' = [calls EXCEPT ![c] = call]
    /\ UNCHANGED << isInitializing, notInitialize >>

\* ensureBrowser resumes after an await and ends: initialize logs, rethrows a
\* rejection, and its finally block lowers the flag; a performSearch that
\* awaits the call goes on
SettleCall(c, call) ==
    /\ calls' = [calls EXCEPT ![c] = call]
    /\ isInitializing' = FALSE
    /\ ps' = IF ps.pc = "initialize" /\ ps.call = c THEN AfterInitialize(c, call) ELSE ps
    /\ UNCHANGED << cl, cleanups, rec, recoveries, searches >>

\* puppeteer.launch(deepMerge(launchArgs, mergedConfig)) is called; unsafe
\* tells whether its args hold a dangerous flag while no override is set
CallLaunch(unsafe) == Call("launching", "none", UndefinedError, 0, unsafe)

\* ensureBrowser threw: initialize() rejects with its error
CallRejected(message) == Call("done", "rejected", Error(message), 0, FALSE)

\* ensureBrowser returned: initialize() resolves
CallResolved == Call("done", "resolved", UndefinedError, 0, FALSE)

\* initialize() while another one holds the flag: logs and returns
InitializeSkip(c, by) ==
    /\ NextCall(c, by)
    /\ isInitializing
    /\ StartCall(c, by, Call("skipped", "resolved", UndefinedError, 0, FALSE))
    /\ UNCHANGED bmVars

\* a faulty variant: the flag is not raised
EnterEnsureBrowserFlagNotSet(c, by, options, allow, awaits) ==
    /\ NextCall(c, by)
    /\ ~isInitializing
    /\ allowDangerous' = allow
    /\ launchOptions' = InstanceOptionsAfter(options)
    /\ UNCHANGED << isInitializing, idleTimeout, host, timers >>

\* the synchronous part of ensureBrowser up to the security validation; the
\* flag stays raised when the call goes on to await
EnterEnsureBrowser(c, by, options, allow, awaits) ==
    /\ NextCall(c, by)
    /\ ~isInitializing
    /\ isInitializing' = awaits
    /\ allowDangerous' = allow
    /\ launchOptions' = InstanceOptionsAfter(options)
    /\ UNCHANGED << idleTimeout, host, timers >>

\* the security validation throws: initialize() rejects
InitializeReject(c, by, options, allow) ==
    LET lo == InstanceOptionsAfter(options)
        merged == MergedConfig(lo)
    IN  /\ EnterEnsureBrowser(c, by, options, allow, FALSE)
        /\ RejectsDangerous(merged, allow)
        /\ StartCall(c, by, CallRejected(DangerousMessage(DangerousArgsOf(merged.args))))
        /\ UNCHANGED << handles, previousLaunchOptions >>

\* the browser is stale: await this.browser?.close()
InitializeClose(c, by, options, allow) ==
    LET lo == InstanceOptionsAfter(options)
        merged == MergedConfig(lo)
    IN  /\ EnterEnsureBrowser(c, by, options, allow, TRUE)
        /\ ~RejectsDangerous(merged, allow)
        /\ MustClose(lo)
        /\ StartCall(c, by, Call("closing", "none", UndefinedError, browser,
                                 UnsafeLaunch(FinalLaunchArgs(merged), allow)))
        /\ UNCHANGED << handles, previousLaunchOptions >>

\* no browser is held and nothing is to be closed: launch at once
InitializeLaunch(c, by, options, allow) ==
    LET lo == InstanceOptionsAfter(options)
        merged == MergedConfig(lo)
    IN  /\ EnterEnsureBrowser(c, by, options, allow, TRUE)
        /\ ~RejectsDangerous(merged, allow)
        /\ ~MustClose(lo)
        /\ browser = 0
        /\ previousLaunchOptions' = lo
        /\ StartCall(c, by, CallLaunch(UnsafeLaunch(FinalLaunchArgs(merged), allow)))
        /\ UNCHANGED handles

\* a browser with unchanged options is kept: initialize() resolves
InitializeReuse(c, by, options, allow) ==
    LET lo == InstanceOptionsAfter(options)
        merged == MergedConfig(lo)
    IN  /\ EnterEnsureBrowser(c, by, options, allow, FALSE)
        /\ ~RejectsDangerous(merged, allow)
        /\ ~MustClose(lo)
        /\ browser # 0
        /\ previousLaunchOptions' = lo
        /\ StartCall(c, by, CallResolved)
        /\ UNCHANGED handles

\* browser.close() resolved (closed |-> TRUE) or threw; either way both
\* handles are dropped and ensureBrowser goes on to launch
EnsureBrowserClosed(c, closed) ==
    /\ calls[c].pc = "closing"
    /\ closed \/ calls[c].target # 0
    /\ DropHandles
    /\ previousLaunchOptions' = launchOptions
    /\ ResumeCall(c, CallLaunch(calls[c].unsafe))
    /\ UNCHANGED << idleTimeout, launchOptions, allowDangerous, host, timers >>

\* puppeteer.launch resolved: this.browser is set, browser.pages() is awaited
LaunchResolve(c) ==
    /\ calls[c].pc = "launching"
    /\ HasFreshBrowser
    /\ browser' = FreshBrowser
    /\ browserConnected' = TRUE
    /\ ResumeCall(c, Call("pages", "none", UndefinedError, FreshBrowser, FALSE))
    /\ UNCHANGED << idleTimeout, previousLaunchOptions, launchOptions, allowDangerous,
                    page, pageIsClosed, pageOwner, host, timers >>

\* a faulty variant: the flag is not lowered when the launch fails
LaunchRejectKeepsFlag(c) ==
    /\ calls[c].pc = "launching"
    /\ calls' = [calls EXCEPT ![c] = CallRejected(LaunchFailed)]
    /\ ps' = IF ps.pc = "initialize" /\ ps.call = c
             THEN AfterInitialize(c, CallRejected(LaunchFailed)) ELSE ps
    /\ UNCHANGED << cl, cleanups, rec, recoveries, searches >>
    /\ UNCHANGED << isInitializing, idleTimeout, previousLaunchOptions, launchOptions,
                    allowDangerous, handles, host, timers >>

\* puppeteer.launch rejected
LaunchReject(c) ==
    /\ calls[c].pc = "launching"
    /\ SettleCall(c, CallRejected(LaunchFailed))
    /\ UNCHANGED << idleTimeout, previousLaunchOptions, launchOptions, allowDangerous,
                    handles, host, timers >>

\* pages() resolved with the browser's first page: this.page = pages[0].
\* The page of a browser that is no longer held may be closed already.
PagesFirst(c, closedNow) ==
    /\ calls[c].pc = "pages"
    /\ calls[c].target = browser => closedNow = ~browserConnected
    /\ HasFreshPage
    /\ page' = FreshPage
    /\ pageOwner' = calls[c].target
    /\ pageIsClosed' = closedNow
    /\ SettleCall(c, CallResolved)
    /\ UNCHANGED << idleTimeout, previousLaunchOptions, launchOptions, allowDangerous,
                    browser, browserConnected, host, timers >>

\* pages() resolved empty: this.browser.newPage() is called on the handle
\* held now, which throws when it is null
PagesEmpty(c) ==
    /\ calls[c].pc = "pages"
    /\ IF browser = 0
       THEN SettleCall(c, CallRejected(NullBrowser))
       ELSE ResumeCall(c, Call("newPage", "none", UndefinedError, browser, FALSE))
    /\ UNCHANGED << idleTimeout, previousLaunchOptions, launchOptions, allowDangerous,
                    handles, host, timers >>

\* pages() rejected
PagesReject(c) ==
    /\ calls[c].pc = "pages"
    /\ SettleCall(c, CallRejected(PageFailed))
    /\ UNCHANGED << idleTimeout, previousLaunchOptions, launchOptions, allowDangerous,
                    handles, host, timers >>

\* newPage() resolved: this.page is the new page
NewPageResolve(c) ==
    /\ calls[c].pc = "newPage"
    /\ calls[c].target = browser
    /\ browserConnected
    /\ HasFreshPage
    /\ page' = FreshPage
    /\ pageOwner' = calls[c].target
    /\ pageIsClosed' = FALSE
    /\ SettleCall(c, CallResolved)
    /\ UNCHANGED << idleTimeout, previousLaunchOptions, launchOptions, allowDangerous,
                    browser, browserConnected, host, timers >>

\* newPage() rejected
NewPageReject(c) ==
    /\ calls[c].pc = "newPage"
    /\ SettleCall(c, CallRejected(PageFailed))
    /\ UNCHANGED << idleTimeout, previousLaunchOptions, launchOptions, allowDangerous,
                    handles, host, timers >>

\* initialize(options) is called
InitializeCall(c, by, options, allow) ==
    \/ InitializeSkip(c, by)
    \/ InitializeReject(c, by, options, allow)
    \/ InitializeClose(c, by, options, allow)
    \/ InitializeLaunch(c, by, options, allow)
    \/ InitializeReuse(c, by, options, allow)

\* a call of initialize resumes after one of its awaits
InitializeResume(c) ==
    \/ \E closed \in BOOLEAN : EnsureBrowserClosed(c, closed)
    \/ LaunchResolve(c)
    \/ LaunchReject(c)
    \/ \E closedNow \in BOOLEAN : PagesFirst(c, closedNow)
    \/ PagesEmpty(c)
    \/ PagesReject(c)
    \/ NewPageResolve(c)
    \/ NewPageReject(c)

\* initialize() as an outside caller uses it
initialize(c) ==
    \/ \E options \in CallLaunchOptions, allow \in BOOLEAN :
           InitializeCall(c, "caller", options, allow)
    \/ InitializeResume(c)

(* ------------------------------------------------------------------ *)
(* The browser process and its pages fail on their own                 *)
(* ------------------------------------------------------------------ *)

\* the held browser disconnects (crash, kill); its pages close with it
BrowserDisconnects ==
    /\ browser # 0
    /\ browserConnected
    /\ browserConnected' = FALSE
    /\ pageIsClosed' = (pageIsClosed \/ (page # 0 /\ pageOwner = browser))
    /\ UNCHANGED << fields, browser, page, pageOwner, host, timers, notEnvironment >>

\* the held page closes (crash, window closed)
PageCloses ==
    /\ page # 0
    /\ ~pageIsClosed
    /\ pageIsClosed' = TRUE
    /\ UNCHANGED << fields, browser, page, browserConnected, pageOwner, host, timers, notEnvironment >>

Environment == BrowserDisconnects \/ PageCloses

(* ------------------------------------------------------------------ *)
(* cleanup(): one action per run between awaits                        *)
(* ------------------------------------------------------------------ *)

\* initialize() calls that wait on the browser: past the flag, not yet back
Awaiting == { "closing", "launching", "pages", "newPage" }

\* the cleanup() call moves on; when it returns, the initialize() calls that
\* are in flight at that moment are noted
SetCleanup(pc, outcome, p) ==
    /\ cl' = [pc |-> pc, outcome |-> outcome, page |-> p,
              during |-> IF pc = "returned"
                         THEN { c \in Calls : calls[c].pc \in Awaiting }
                         ELSE { }]
    /\ UNCHANGED notCleanup

\* a cleanup() call that is past its first await
ResumeCleanup(pc, outcome, p) ==
    /\ SetCleanup(pc, outcome, p)
    /\ UNCHANGED cleanups

\* clearTimeout on each of ids; this.idleTimeout = null
CancelTimers(ids) ==
    /\ timers' = { t \in timers : t.id \notin ids }
    /\ idleTimeout' = 0

\* clearTimeout(this.idleTimeout); this.idleTimeout = null
ClearIdleTimeout == CancelTimers({ idleTimeout })

\* the end of the try block: the handles and flags are reset
CleanupCompletes ==
    /\ DropHandles
    /\ isInitializing' = FALSE
    /\ previousLaunchOptions' = NullOptions
    /\ UNCHANGED << launchOptions, allowDangerous, host >>

\* cleanup() is called with an open page: await this.page.close()
CleanupClosePage ==
    /\ cl.pc \in { "idle", "returned" }
    /\ cleanups < MaxCleanups
    /\ cleanups' = cleanups + 1
    /\ page # 0 /\ ~pageIsClosed
    /\ ClearIdleTimeout
    /\ SetCleanup("closingPage", "none", page)
    /\ UNCHANGED << isInitializing, previousLaunchOptions, launchOptions, allowDangerous,
                    handles, host >>

\* cleanup() is called with no open page and a connected browser:
\* await this.browser.close()
CleanupCloseBrowser ==
    /\ cl.pc \in { "idle", "returned" }
    /\ cleanups < MaxCleanups
    /\ cleanups' = cleanups + 1
    /\ ~(page # 0 /\ ~pageIsClosed)
    /\ browser # 0 /\ browserConnected
    /\ ClearIdleTimeout
    /\ SetCleanup("closingBrowser", "none", 0)
    /\ UNCHANGED << isInitializing, previousLaunchOptions, launchOptions, allowDangerous,
                    handles, host >>

\* cleanup() is called with nothing to close
CleanupNothingOpen ==
    /\ cl.pc \in { "idle", "returned" }
    /\ cleanups < MaxCleanups
    /\ cleanups' = cleanups + 1
    /\ ~(page # 0 /\ ~pageIsClosed)
    /\ ~(browser # 0 /\ browserConnected)
    /\ ClearIdleTimeout
    /\ CleanupCompletes
    /\ SetCleanup("returned", "completed", 0)

\* page.close() resolved and the browser held now is connected
CleanupPageClosedCloseBrowser ==
    /\ cl.pc = "closingPage"
    /\ browser # 0 /\ browserConnected
    /\ pageIsClosed' = (pageIsClosed \/ page = cl.page)
    /\ ResumeCleanup("closingBrowser", "none", 0)
    /\ UNCHANGED << fields, browser, page, browserConnected, pageOwner, host, timers >>

\* page.close() resolved and no connected browser is held
CleanupPageClosedCompletes ==
    /\ cl.pc = "closingPage"
    /\ ~(browser # 0 /\ browserConnected)
    /\ CleanupCompletes
    /\ ResumeCleanup("returned", "completed", 0)
    /\ UNCHANGED << idleTimeout, timers >>

\* browser.close() resolved
CleanupBrowserClosed ==
    /\ cl.pc = "closingBrowser"
    /\ CleanupCompletes
    /\ ResumeCleanup("returned", "completed", 0)
    /\ UNCHANGED << idleTimeout, timers >>

\* a faulty variant: the catch block rethrows
CleanupCatchRethrows ==
    /\ cl.pc \in { "closingPage", "closingBrowser" }
    /\ ResumeCleanup("returned", "raised", 0)
    /\ UNCHANGED bmVars

\* page.close() or browser.close() rejected: the catch block logs the error
CleanupCatch ==
    /\ cl.pc \in { "closingPage", "closingBrowser" }
    /\ ResumeCleanup("returned", "logged", 0)
    /\ UNCHANGED bmVars

cleanup ==
    \/ CleanupClosePage
    \/ CleanupCloseBrowser
    \/ CleanupNothingOpen
    \/ CleanupPageClosedCloseBrowser
    \/ CleanupPageClosedCompletes
    \/ CleanupBrowserClosed
    \/ CleanupCatch

\* determineRecoveryLevel, computed once over the errors callers pass
RecoveryLevelTable == [error \in RecoveryErrors |-> determineRecoveryLevel(error)]

\* ctx.determineRecoveryLevel(error)
RecoveryLevel(error) ==
    IF error \in RecoveryErrors THEN RecoveryLevelTable[error] ELSE determineRecoveryLevel(error)

(* ------------------------------------------------------------------ *)
(* resetIdleTimeout(): the idle timer is replaced by a new one         *)
(* ------------------------------------------------------------------ *)

\* a timer set now; replaced tells that setting it cancelled a pending timer
Timer(id, replaced) == [id |-> id, due |-> now + IDLE_TIMEOUT_MS, replaced |-> replaced]

\* a faulty variant: the timer set before is left pending
SetIdleTimeoutKeepsPrevious ==
    LET pending == timers
        free == Timers \ { t.id : t \in pending }
        timer == CHOOSE t \in free : \A o \in free : t <= o
    IN  /\ free # { }
        /\ now + IDLE_TIMEOUT_MS <= MaxTicks * ClockStep
        /\ idleTimeout' = timer
        /\ timers' = pending \cup { Timer(timer, pending # timers) }

\* clearTimeout(ctx.idleTimeout); ctx.setIdleTimeout(setTimeout(...))
SetIdleTimeout ==
    LET pending == { t \in timers : t.id # idleTimeout }
        free == Timers \ { t.id : t \in pending }
        timer == CHOOSE t \in free : \A o \in free : t <= o
    IN  /\ free # { }
        /\ now + IDLE_TIMEOUT_MS <= MaxTicks * ClockStep
        /\ idleTimeout' = timer
        /\ timers' = pending \cup { Timer(timer, pending # timers) }

ResetIdleTimeout ==
    /\ SetIdleTimeout
    /\ UNCHANGED << isInitializing, previousLaunchOptions, launchOptions, allowDangerous,
                    handles, host, notEnvironment >>

(* ------------------------------------------------------------------ *)
(* The idle timer fires: its callback runs cleanup                     *)
(* ------------------------------------------------------------------ *)

\* the clock moves on
Tick ==
    /\ now < MaxTicks * ClockStep
    /\ now' = now + ClockStep
    /\ UNCHANGED << env, lg, files, so, sessionOps, saved, rt, wa, chat, fields, handles, timers,
                    notEnvironment >>

\* timer t has run for its whole delay and no cleanup is under way
TimerFires(t) ==
    /\ t \in timers
    /\ now >= t.due
    /\ cl.pc \in { "idle", "returned" }
    /\ CancelTimers({ t.id, idleTimeout })
    /\ UNCHANGED cleanups

\* the callback finds an open page: await this.page.close()
IdleCleanupClosePage(t) ==
    /\ TimerFires(t)
    /\ page # 0 /\ ~pageIsClosed
    /\ SetCleanup("closingPage", "none", page)
    /\ UNCHANGED << isInitializing, previousLaunchOptions, launchOptions, allowDangerous,
                    handles, host >>

\* the callback finds no open page and a connected browser:
\* await this.browser.close()
IdleCleanupCloseBrowser(t) ==
    /\ TimerFires(t)
    /\ ~(page # 0 /\ ~pageIsClosed)
    /\ browser # 0 /\ browserConnected
    /\ SetCleanup("closingBrowser", "none", 0)
    /\ UNCHANGED << isInitializing, previousLaunchOptions, launchOptions, allowDangerous,
                    handles, host >>

\* the callback finds nothing to close
IdleCleanupNothingOpen(t) ==
    /\ TimerFires(t)
    /\ ~(page # 0 /\ ~pageIsClosed)
    /\ ~(browser # 0 /\ browserConnected)
    /\ CleanupCompletes
    /\ SetCleanup("returned", "completed", 0)

\* the callback of the idle timer: cleanup up to its first await
IdleTimeoutFires ==
    \E t \in timers :
        \/ IdleCleanupClosePage(t)
        \/ IdleCleanupCloseBrowser(t)
        \/ IdleCleanupNothingOpen(t)

\* a cleanup that is past its first await resumes
CleanupResumes ==
    \/ CleanupPageClosedCloseBrowser
    \/ CleanupPageClosedCompletes
    \/ CleanupBrowserClosed
    \/ CleanupCatch

(* ------------------------------------------------------------------ *)
(* performRecovery(error): the level is computed, its action applied   *)
(* ------------------------------------------------------------------ *)

\* performRecovery(error) is called: recoveryProcedure(ctx, error) computes
\* the level with ctx.determineRecoveryLevel
PerformRecovery(error, by) ==
    /\ rec.pc = "idle"
    /\ IF by = "search"
       THEN /\ ps.pc = "caught"
            /\ ps' = [ps EXCEPT !.pc = "recovering"]
            /\ UNCHANGED recoveries
       ELSE /\ recoveries < MaxRecoveries
            /\ recoveries' = recoveries + 1
            /\ UNCHANGED ps
    /\ rec' = [pc |-> "applying", level |-> RecoveryLevel(error), error |-> error,
               by |-> by]
    /\ UNCHANGED << bmVars, calls, cl, cleanups, searches >>

\* generateErrorResponse(error) of the search engine
generateErrorResponse(error) ==
    LET errorMessage == ToLowerCase(error.message)
    IN  IF Includes(errorMessage, "timeout") THEN TimeoutResponse
        ELSE IF Includes(errorMessage, "navigation") THEN NavigationResponse
        ELSE IF Includes(errorMessage, "detached") THEN TechnicalResponse
        ELSE GenericResponse(error.message)

\* generateErrorResponse, computed once over the errors of the steps
ErrorResponseTable == [error \in RecoveryErrors |-> generateErrorResponse(error)]

ErrorResponse(error) ==
    IF error \in RecoveryErrors THEN ErrorResponseTable[error] ELSE generateErrorResponse(error)

\* performRecovery resolves; a performSearch that awaits it returns the
\* message for its error
FinishRecovery ==
    /\ rec' = IdleRecovery
    /\ IF rec.by = "search"
       THEN ps' = [ps EXCEPT !.pc = "returned", !.result = ErrorResponse(ps.error)]
       ELSE UNCHANGED ps
    /\ UNCHANGED << calls, cl, cleanups, recoveries, searches >>

\* level 1: no structural change
RecoveryLevel1 ==
    /\ rec.pc = "applying"
    /\ rec.level = 1
    /\ FinishRecovery
    /\ UNCHANGED bmVars

\* level 2: the page handle is discarded and a fresh page is acquired from
\* the existing browser
RecoveryLevel2 ==
    /\ rec.pc = "applying"
    /\ rec.level = 2
    /\ HasFreshPage
    /\ IF browser # 0 /\ browserConnected
       THEN page' = FreshPage /\ pageOwner' = browser
       ELSE page' = 0 /\ pageOwner' = 0
    /\ pageIsClosed' = FALSE
    /\ FinishRecovery
    /\ UNCHANGED << fields, browser, browserConnected, host, timers >>

\* level 3: both handles are discarded
RecoveryLevel3 ==
    /\ rec.pc = "applying"
    /\ rec.level = 3
    /\ DropHandles
    /\ FinishRecovery
    /\ UNCHANGED << fields, host, timers >>

ApplyRecovery == RecoveryLevel1 \/ RecoveryLevel2 \/ RecoveryLevel3

\* performRecovery() as an outside caller uses it
performRecovery ==
    \/ \E error \in RecoveryErrors : PerformRecovery(error, "caller")
    \/ ApplyRecovery

(* ------------------------------------------------------------------ *)
(* performSearch(query): one action per run between awaits             *)
(* ------------------------------------------------------------------ *)

\* the page the steps of a search work on is open
PageUsable == page # 0 /\ ~pageIsClosed /\ browserConnected

\* performSearch() is called with the browser ready: it navigates at once
SearchStart ==
    /\ SearchMayStart
    /\ ~SearchNeedsInitialize
    /\ ps' = [pc |-> "navigate", call |-> 0, error |-> UndefinedError, result |-> ""]
    /\ searches' = searches + 1
    /\ UNCHANGED << bmVars, calls, cl, cleanups, rec, recoveries >>

\* performSearch() is called with the browser not ready: await initialize()
SearchInitialize(c) == InitializeCall(c, "search", EmptyOptions, FALSE)

\* navigateToPerplexity() or waitForSearchInput() resolved
SearchStepResolves ==
    /\ ps.pc \in { "navigate", "selector" }
    /\ PageUsable
    /\ ps' = [ps EXCEPT !.pc = IF ps.pc = "navigate" THEN "selector" ELSE "answer"]
    /\ UNCHANGED << bmVars, calls, cl, cleanups, rec, recoveries, searches >>

\* waitForCompleteAnswer() resolved: resetIdleTimeout(), return the answer
SearchAnswered ==
    /\ ps.pc = "answer"
    /\ PageUsable
    /\ SetIdleTimeout
    /\ ps' = [ps EXCEPT !.pc = "returned", !.result = Answer]
    /\ UNCHANGED << isInitializing, previousLaunchOptions, launchOptions, allowDangerous,
                    handles, host, calls, cl, cleanups, rec, recoveries, searches >>

\* a step rejected: the catch block logs the error
SearchStepRejects(message) ==
    /\ ps.pc \in { "navigate", "selector", "answer" }
    /\ ps' = [ps EXCEPT !.pc = "caught", !.error = Error(message)]
    /\ UNCHANGED << bmVars, calls, cl, cleanups, rec, recoveries, searches >>

\* a faulty variant: the error is not handed to performRecovery
SearchRecoverWithoutError == PerformRecovery(UndefinedError, "search")

\* catch: await this.browserManager.performRecovery(error)
SearchRecover == PerformRecovery(ps.error, "search")

performSearch ==
    \/ SearchStart
    \/ \E c \in Calls : SearchInitialize(c)
    \/ SearchStepResolves
    \/ SearchAnswered
    \/ \E message \in StepErrors : SearchStepRejects(message)
    \/ SearchRecover

(* ------------------------------------------------------------------ *)
(* Specifications                                                      *)
(* ------------------------------------------------------------------ *)

NextInit ==
    \/ \E c \in Calls : initialize(c)
    \/ Environment

\* initialize() calls only, in any interleaving
SpecInit == Init /\ [][NextInit]_vars

NextLifecycle ==
    \/ \E c \in Calls : initialize(c)
    \/ Environment
    \/ cleanup
    \/ ResetIdleTimeout

\* initialize(), cleanup() and resetIdleTimeout() calls, in any interleaving
SpecLifecycle == Init /\ [][NextLifecycle]_vars

NextRecovery ==
    \/ \E c \in Calls : initialize(c)
    \/ Environment
    \/ performRecovery

\* initialize() and performRecovery() calls, in any interleaving
SpecRecovery == Init /\ [][NextRecovery]_vars

NextIdle ==
    \/ \E c \in Calls : InitializeCall(c, "caller", EmptyOptions, FALSE) \/ InitializeResume(c)
    \/ Environment
    \/ cleanup
    \/ ResetIdleTimeout
    \/ Tick
    \/ IdleTimeoutFires

\* the idle timer beside initialize(), cleanup() and resetIdleTimeout() calls:
\* the clock moves on, a timer that is due fires, and a close() that is
\* awaited settles
SpecIdle ==
    /\ Init
    /\ [][NextIdle]_vars
    /\ WF_vars(Tick)
    /\ WF_vars(IdleTimeoutFires)
    /\ WF_vars(CleanupResumes)

NextSearch ==
    \/ performSearch
    \/ ApplyRecovery
    \/ \E c \in Calls : InitializeCall(c, "caller", EmptyOptions, FALSE) \/ InitializeResume(c)
    \/ Environment
    \/ cleanup

\* performSearch() calls beside initialize() and cleanup() calls
SpecSearch == Init /\ [][NextSearch]_vars

(* ------------------------------------------------------------------ *)
(* session-manager: one action per run between awaits                  *)
(* ------------------------------------------------------------------ *)

\* what the session store leaves alone
notSessionStore == << fields, handles, env, timers, calls, cl, cleanups, rec, recoveries,
                      ps, searches, lg, rt, wa, chat >>

\* a function of the session store is called; the caller awaits every call
\* before it makes the next
StartSession(op, sessionId, pc) ==
    /\ so.pc = "done"
    /\ sessionOps < MaxSessionOps
    /\ sessionOps' = sessionOps + 1
    /\ so' = [NoSessionCall EXCEPT
                  !.op = op, !.pc = pc, !.sessionId = sessionId, !.startedAt = now,
                  !.existed = (sessionId \in SessionIds /\ files[getSessionPath(sessionId)].exists),
                  !.before = [op |-> so.op, startedAt |-> so.startedAt, failed |-> so.failed,
                              deletedCount |-> so.deletedCount]]
    /\ UNCHANGED << files, saved, now, notSessionStore >>

\* the call goes on to its next await
ResumeSession(next) ==
    /\ so' = next
    /\ UNCHANGED << sessionOps, now, notSessionStore >>

\* the call returns and its locals are gone; a catch block logs the failure
\* it caught and returns, none rethrows
ReturnedCall(call, result) ==
    [call EXCEPT !.pc = "done", !.result = result, !.cookies = << >>,
                 !.localStorage = << >>, !.timestamp = 0, !.queue = << >>]

ReturnSession(result, failed) ==
    ResumeSession(ReturnedCall([so EXCEPT !.failed = so.failed \/ failed], result))

\* the session of id is what the step made of it
SetSaved(sessionId, state, session) ==
    saved' = [saved EXCEPT ![sessionId] =
                  [state |-> state, cookies |-> session.cookies,
                   localStorage |-> session.localStorage, timestamp |-> session.timestamp]]

\* saveSessionCookies(page, sessionId): await ensureSessionDir()
SaveCall(sessionId) == StartSession("save", sessionId, "mkdir")

\* fs.mkdir settled (a failure is logged): await page.cookies()
SaveMkdirSettles(ok) ==
    /\ so.op = "save" /\ so.pc = "mkdir"
    /\ ResumeSession([so EXCEPT !.pc = "cookies", !.failed = ~ok])
    /\ UNCHANGED << files, saved >>

\* page.cookies() resolved: await page.evaluate(...)
SaveCookiesResolve(cookies) ==
    /\ so.op = "save" /\ so.pc = "cookies"
    /\ ResumeSession([so EXCEPT !.pc = "evaluate", !.cookies = cookies])
    /\ UNCHANGED << files, saved >>

\* page.evaluate resolved with the storage object: the session is built with
\* Date.now(); await fs.writeFile(...)
SaveEvaluateResolve(pageStorage) ==
    /\ so.op = "save" /\ so.pc = "evaluate"
    /\ ResumeSession([so EXCEPT !.pc = "writeFile",
                                !.localStorage = ReadLocalStorage(pageStorage),
                                !.timestamp = now])
    /\ UNCHANGED << files, saved >>

\* a faulty variant: the failed save leaves an empty file for the id
SavePageRejectsTruncates ==
    /\ so.op = "save" /\ so.pc \in { "cookies", "evaluate" }
    /\ files' = [files EXCEPT ![getSessionPath(so.sessionId)] = File(NotJSON, now)]
    /\ SetSaved(so.sessionId, "damaged", NoSession)
    /\ ReturnSession("void", TRUE)

\* page.cookies() or page.evaluate rejected: the catch block logs
SavePageRejects ==
    /\ so.op = "save" /\ so.pc \in { "cookies", "evaluate" }
    /\ ReturnSession("void", TRUE)
    /\ UNCHANGED << files, saved >>

\* fs.writeFile resolved: the file of the id holds the session
SaveWriteResolve ==
    /\ so.op = "save" /\ so.pc = "writeFile"
    /\ files' = [files EXCEPT ![getSessionPath(so.sessionId)] =
                     File(JSONStringifySession(so), now)]
    /\ SetSaved(so.sessionId, "saved", so)
    /\ ReturnSession("void", FALSE)

\* fs.writeFile rejected, before it touched the file or after it had cut an
\* existing or new file short: the catch block logs
SaveWriteReject(cutShort) ==
    /\ so.op = "save" /\ so.pc = "writeFile"
    /\ IF cutShort
       THEN /\ files' = [files EXCEPT ![getSessionPath(so.sessionId)] = File(NotJSON, now)]
            /\ SetSaved(so.sessionId, "damaged", NoSession)
       ELSE UNCHANGED << files, saved >>
    /\ ReturnSession("void", TRUE)

saveSessionCookies ==
    \/ \E sessionId \in SessionIds : SaveCall(sessionId)
    \/ \E ok \in BOOLEAN : SaveMkdirSettles(ok)
    \/ \E cookies \in CookieLists : SaveCookiesResolve(cookies)
    \/ \E pageStorage \in PageStorages : SaveEvaluateResolve(pageStorage)
    \/ SavePageRejects
    \/ SaveWriteResolve
    \/ \E cutShort \in BOOLEAN : SaveWriteReject(cutShort)

\* restoreSessionCookies(page, sessionId): await fs.stat(sessionPath)
RestoreCall(sessionId) == StartSession("restore", sessionId, "stat")

\* fs.stat resolved: await fs.readFile(sessionPath, "utf-8")
RestoreStatResolve ==
    /\ so.op = "restore" /\ so.pc = "stat"
    /\ files[getSessionPath(so.sessionId)].exists
    /\ ResumeSession([so EXCEPT !.pc = "readFile"])
    /\ UNCHANGED << files, saved >>

\* fs.stat rejected, the file missing or not: 'not found', return false
RestoreStatReject ==
    /\ so.op = "restore" /\ so.pc = "stat"
    /\ ReturnSession("false", files[getSessionPath(so.sessionId)].exists)
    /\ UNCHANGED << files, saved >>

\* a faulty variant: a session as old as the expiry window counts as expired
IsExpiredAtWindow(age) == age >= expiryMs

\* if (age > expiryMs)
IsExpired(age) == age > expiryMs

\* what restoreSessionCookies awaits next once the age is known
AfterAge(session, age) ==
    IF IsExpired(age) THEN "unlink"
    ELSE IF Len(session.cookies) > 0 THEN "setCookie"
    ELSE IF Len(session.localStorage) > 0 THEN "evaluateOnNewDocument"
    ELSE "done"

\* fs.readFile resolved: JSON.parse throws on a text that is no JSON;
\* otherwise the age decides between unlink, the restoring calls and return
RestoreReadResolve ==
    /\ so.op = "restore" /\ so.pc = "readFile"
    /\ files[getSessionPath(so.sessionId)].exists
    /\ LET text == files[getSessionPath(so.sessionId)].text
       IN  IF ~text.valid
           THEN ReturnSession("false", TRUE)
           ELSE LET session == JSONParseSession(text)
                    age == now - session.timestamp
                    next == AfterAge(session, age)
                    read == [so EXCEPT !.cookies = session.cookies,
                                       !.localStorage = session.localStorage,
                                       !.timestamp = session.timestamp,
                                       !.age = age,
                                       !.pc = next]
                IN  ResumeSession(IF next = "done" THEN ReturnedCall(read, "true") ELSE read)
    /\ UNCHANGED << files, saved >>

\* fs.readFile rejected: the catch block logs, return false
RestoreReadReject ==
    /\ so.op = "restore" /\ so.pc = "readFile"
    /\ ReturnSession("false", TRUE)
    /\ UNCHANGED << files, saved >>

\* fs.unlink(sessionPath).catch(() => {}) settled: a rejection is dropped
\* by the empty handler, which logs nothing; return false
RestoreUnlinkSettles(ok) ==
    /\ so.op = "restore" /\ so.pc = "unlink"
    /\ IF ok
       THEN /\ files' = [files EXCEPT ![getSessionPath(so.sessionId)] = NoFile]
            /\ SetSaved(so.sessionId, "expired", NoSession)
       ELSE UNCHANGED << files, saved >>
    /\ ResumeSession(ReturnedCall([so EXCEPT !.failed = ~ok, !.unlogged = ~ok], "false"))

\* page.setCookie(...session.cookies) resolved
RestoreSetCookieResolve ==
    /\ so.op = "restore" /\ so.pc = "setCookie"
    /\ LET set == [so EXCEPT !.applied = Append(so.applied, << "setCookie", so.cookies >>)]
       IN  IF Len(so.localStorage) > 0
           THEN ResumeSession([set EXCEPT !.pc = "evaluateOnNewDocument"])
           ELSE ResumeSession(ReturnedCall(set, "true"))
    /\ UNCHANGED << files, saved >>

\* page.evaluateOnNewDocument(..., session.localStorage) resolved: return true
RestoreEvaluateResolve ==
    /\ so.op = "restore" /\ so.pc = "evaluateOnNewDocument"
    /\ ResumeSession(ReturnedCall([so EXCEPT
           !.applied = Append(so.applied, << "evaluateOnNewDocument", so.localStorage >>)],
           "true"))
    /\ UNCHANGED << files, saved >>

\* page.setCookie or page.evaluateOnNewDocument rejected: the catch block
\* logs, return false
RestorePageRejects ==
    /\ so.op = "restore" /\ so.pc \in { "setCookie", "evaluateOnNewDocument" }
    /\ ReturnSession("false", TRUE)
    /\ UNCHANGED << files, saved >>

restoreSessionCookies ==
    \/ \E sessionId \in SessionIds : RestoreCall(sessionId)
    \/ RestoreStatResolve
    \/ RestoreStatReject
    \/ RestoreReadResolve
    \/ RestoreReadReject
    \/ \E ok \in BOOLEAN : RestoreUnlinkSettles(ok)
    \/ RestoreSetCookieResolve
    \/ RestoreEvaluateResolve
    \/ RestorePageRejects

\* clearExpiredSessions(): await ensureSessionDir()
ClearCall == StartSession("clear", "", "mkdir")

\* fs.mkdir settled (a failure is logged): await fs.readdir(dir)
ClearMkdirSettles(ok) ==
    /\ so.op = "clear" /\ so.pc = "mkdir"
    /\ ResumeSession([so EXCEPT !.pc = "readdir", !.failed = ~ok])
    /\ UNCHANGED << files, saved >>

\* the names still to visit: if (!file.endsWith(".json")) continue
RECURSIVE SkipOthers(_)
SkipOthers(names) ==
    IF names = << >> \/ EndsWith(Head(names), ".json") THEN names
    ELSE SkipOthers(Tail(names))

\* the loop goes to its next session file and awaits fs.stat(filePath), or
\* the names are used up and the sweep returns
VisitNext(call, names) ==
    LET rest == SkipOthers(names)
    IN  IF rest = << >>
        THEN ReturnedCall(call, "void")
        ELSE [call EXCEPT !.queue = rest, !.pc = "stat"]

\* the file the loop is at, and the session id it belongs to
CurrentPath == join(SESSION_STORAGE_DIR, Head(so.queue))
SessionOf(path) == CHOOSE sessionId \in SessionIds : getSessionPath(sessionId) = path

\* fs.readdir resolved with the names of the directory
ClearReaddirResolve ==
    /\ so.op = "clear" /\ so.pc = "readdir"
    /\ ResumeSession(VisitNext(so, readdir))
    /\ UNCHANGED << files, saved >>

\* fs.readdir rejected: the outer catch block logs
ClearReaddirReject ==
    /\ so.op = "clear" /\ so.pc = "readdir"
    /\ ReturnSession("void", TRUE)
    /\ UNCHANGED << files, saved >>

\* fs.stat resolved: age = Date.now() - stats.mtimeMs; an expired file is
\* unlinked, any other is passed over
ClearStatResolve ==
    /\ so.op = "clear" /\ so.pc = "stat"
    /\ files[CurrentPath].exists
    /\ LET age == now - files[CurrentPath].mtimeMs
       IN  IF IsExpired(age)
           THEN ResumeSession([so EXCEPT !.pc = "unlink", !.age = age])
           ELSE ResumeSession(VisitNext([so EXCEPT !.age = age], Tail(so.queue)))
    /\ UNCHANGED << files, saved >>

\* fs.stat rejected: the inner catch block logs, the loop goes on
ClearStatReject ==
    /\ so.op = "clear" /\ so.pc = "stat"
    /\ ResumeSession(VisitNext([so EXCEPT !.failed = TRUE], Tail(so.queue)))
    /\ UNCHANGED << files, saved >>

\* a faulty variant: the sweep counts a file it did not remove
ClearUnlinkResolveLeavesFile ==
    /\ so.op = "clear" /\ so.pc = "unlink"
    /\ files[CurrentPath].exists
    /\ ResumeSession(VisitNext([so EXCEPT !.deletedCount = so.deletedCount + 1],
                               Tail(so.queue)))
    /\ UNCHANGED << files, saved >>

\* fs.unlink resolved: deletedCount++
ClearUnlinkResolve ==
    /\ so.op = "clear" /\ so.pc = "unlink"
    /\ files[CurrentPath].exists
    /\ files' = [files EXCEPT ![CurrentPath] = NoFile]
    /\ SetSaved(SessionOf(CurrentPath), "expired", NoSession)
    /\ ResumeSession(VisitNext([so EXCEPT !.deletedCount = so.deletedCount + 1],
                               Tail(so.queue)))

\* fs.unlink rejected: the inner catch block logs, the loop goes on
ClearUnlinkReject ==
    /\ so.op = "clear" /\ so.pc = "unlink"
    /\ ResumeSession(VisitNext([so EXCEPT !.failed = TRUE], Tail(so.queue)))
    /\ UNCHANGED << files, saved >>

clearExpiredSessions ==
    \/ ClearCall
    \/ \E ok \in BOOLEAN : ClearMkdirSettles(ok)
    \/ ClearReaddirResolve
    \/ ClearReaddirReject
    \/ ClearStatResolve
    \/ ClearStatReject
    \/ ClearUnlinkResolve
    \/ ClearUnlinkReject

\* deleteSession(sessionId): await fs.unlink(sessionPath)
DeleteCall(sessionId) == StartSession("delete", sessionId, "unlink")

\* fs.unlink resolved: the file of the id is gone
DeleteUnlinkResolve ==
    /\ so.op = "delete" /\ so.pc = "unlink"
    /\ files[getSessionPath(so.sessionId)].exists
    /\ files' = [files EXCEPT ![getSessionPath(so.sessionId)] = NoFile]
    /\ SetSaved(so.sessionId, "deleted", NoSession)
    /\ ReturnSession("void", FALSE)

\* fs.unlink rejected, the file missing or not: the catch block logs
DeleteUnlinkReject ==
    /\ so.op = "delete" /\ so.pc = "unlink"
    /\ ReturnSession("void", TRUE)
    /\ IF files[getSessionPath(so.sessionId)].exists
       THEN UNCHANGED saved
       ELSE SetSaved(so.sessionId, "deleted", NoSession)
    /\ UNCHANGED files

deleteSession ==
    \/ \E sessionId \in SessionIds : DeleteCall(sessionId)
    \/ DeleteUnlinkResolve
    \/ DeleteUnlinkReject

\* time passes beside the session store
SessionTick ==
    /\ now + SessionClockStep <= MaxSessionTicks * SessionClockStep
    /\ now' = now + SessionClockStep
    /\ UNCHANGED << files, so, sessionOps, saved, notSessionStore >>

NextSessions ==
    \/ saveSessionCookies
    \/ restoreSessionCookies
    \/ clearExpiredSessions
    \/ deleteSession
    \/ SessionTick

\* the session store reads nothing of the host
InitSessions ==
    /\ Init
    /\ env = [config |-> EmptyOptions, allowDangerous |-> FALSE, isRoot |-> FALSE]

SpecSessions == InitSessions /\ [][NextSessions]_vars

(* ------------------------------------------------------------------ *)
(* puppeteer-logic: determineRecoveryLevel(error?, environment?)       *)
(* ------------------------------------------------------------------ *)

\* everything of the browser manager and its callers
managerVars == << fields, handles, env, now, timers, calls, cl, cleanups, rec, recoveries,
                  ps, searches, files, so, sessionOps, saved, rt, wa, chat >>

\* the messages of the errors the level is asked for
LogicMessages ==
    { "frame detached", "session closed", "target closed", "any",
      "Navigating frame was detached", "Protocol error: Session closed.",
      "Protocol error (Target.createTarget): target closed", "net::ERR_FAILED" }

LogicErrors == { UndefinedError } \cup { Error(m) : m \in LogicMessages }

\* the environment argument left out
NoEnvironment ==
    [given |-> FALSE, hasBrowser |-> FALSE, isBrowserConnected |-> FALSE,
     hasValidPage |-> FALSE]

\* EnvironmentSnapshot values, and the argument left out
EnvironmentSnapshots ==
    { NoEnvironment } \cup
    [given : { TRUE }, hasBrowser : BOOLEAN, isBrowserConnected : BOOLEAN,
     hasValidPage : BOOLEAN]

\* the raw messages that ask for a restart whatever the environment
CriticalMessages == { "frame detached", "session closed", "target closed" }

\* a faulty variant: the environment is looked at before the error
determineRecoveryLevelEnvironmentFirst(error, environment) ==
    IF environment.given /\ (~environment.hasBrowser \/ ~environment.isBrowserConnected)
    THEN 3
    ELSE IF environment.given /\ ~environment.hasValidPage
    THEN 2
    ELSE IF ~error.isError
    THEN 1
    ELSE IF \E m \in CriticalMessages : Includes(error.message, m)
    THEN 3
    ELSE 1

\* determineRecoveryLevel(error?, environment?): the first match decides
determineRecoveryLevelLogic(error, environment) ==
    IF ~error.isError
    THEN 1
    ELSE IF \E m \in CriticalMessages : Includes(error.message, m)
    THEN 3
    ELSE IF environment.given /\ (~environment.hasBrowser \/ ~environment.isBrowserConnected)
    THEN 3
    ELSE IF environment.given /\ ~environment.hasValidPage
    THEN 2
    ELSE 1

\* a call of a pure function that has not been evaluated yet
LogicCall(fn, args) == [fn |-> fn, args |-> args, done |-> FALSE, result |-> 0]

\* the calls of determineRecoveryLevel of puppeteer-logic
RecoveryLevelCalls ==
    { LogicCall("determineRecoveryLevel", [error |-> e, environment |-> s]) :
          e \in LogicErrors, s \in EnvironmentSnapshots }

\* the call returns
ReturnLogic(result) ==
    /\ ~lg.done
    /\ lg' = [lg EXCEPT !.done = TRUE, !.result = result]
    /\ UNCHANGED managerVars

ApplyDetermineRecoveryLevel ==
    /\ lg.fn = "determineRecoveryLevel"
    /\ ReturnLogic(determineRecoveryLevelLogic(lg.args.error, lg.args.environment))

\* Backoff Calculator: base 1000 ms x 2^attempt, jitter uniform(0,1000),
\* cap 30000 ms, floors 5000 ms (isTimeout) and 8000 ms (isNavigation)
RETRY_BASE_MS == 1000
RETRY_JITTER_MS == 1000
RETRY_CAP_MS == 30000
TIMEOUT_FLOOR_MS == 5000
NAVIGATION_FLOOR_MS == 8000

Max(a, b) == IF a >= b THEN a ELSE b
Min(a, b) == IF a <= b THEN a ELSE b

\* ErrorAnalysis: the flags the calculator reads and the two counters
ErrorAnalyses ==
    [isTimeout : BOOLEAN, isNavigation : BOOLEAN, isConnection : { FALSE },
     isDetachedFrame : { FALSE }, isCaptcha : BOOLEAN,
     consecutiveTimeouts : { 0, 2 }, consecutiveNavigationErrors : { 0, 2 }]

\* the values Math.random() * 1000 takes, rounded down
Jitters == { 0, RETRY_JITTER_MS \div 2, RETRY_JITTER_MS - 1 }

\* the increment of the fatigue counters: none without consecutive failures
\* of a category the error has, bounded otherwise
FatigueIncrements(analysis) ==
    IF \/ analysis.isTimeout /\ analysis.consecutiveTimeouts > 0
       \/ analysis.isNavigation /\ analysis.consecutiveNavigationErrors > 0
    THEN { MaxFatigue \div 4, MaxFatigue }
    ELSE { 0 }

\* the floor of the overrides that apply: their maximum, never their sum
OverrideFloor(analysis) ==
    Max(IF analysis.isTimeout THEN TIMEOUT_FLOOR_MS ELSE 0,
        IF analysis.isNavigation THEN NAVIGATION_FLOOR_MS ELSE 0)

\* a faulty variant: the fatigue increment is added after the cap
calculateRetryDelayFatigueAfterCap(attemptNumber, analysis, jitter, fatigue) ==
    Min(Max(RETRY_BASE_MS * 2 ^ attemptNumber + jitter, OverrideFloor(analysis)),
        RETRY_CAP_MS) + fatigue

\* calculateRetryDelay(attemptNumber, analysis), with the jitter it draws
\* and the increment of its fatigue counters
calculateRetryDelay(attemptNumber, analysis, jitter, fatigue) ==
    Min(Max(RETRY_BASE_MS * 2 ^ attemptNumber + jitter, OverrideFloor(analysis)) + fatigue,
        RETRY_CAP_MS)

\* the calls of calculateRetryDelay
RetryDelayCalls ==
    LET drawn == { LogicCall("calculateRetryDelay",
                             [attemptNumber |-> n, analysis |-> a, jitter |-> j,
                              fatigue |-> f]) :
                       n \in 0..MaxAttempt, a \in ErrorAnalyses, j \in Jitters,
                       f \in { 0, MaxFatigue \div 4, MaxFatigue } }
    IN  { c \in drawn : c.args.fatigue \in FatigueIncrements(c.args.analysis) }

ApplyCalculateRetryDelay ==
    /\ lg.fn = "calculateRetryDelay"
    /\ ReturnLogic(calculateRetryDelay(lg.args.attemptNumber, lg.args.analysis,
                                       lg.args.jitter, lg.args.fatigue))

(* ------------------------------------------------------------------ *)
(* puppeteer-logic: validateNavigationUrl(url, expectedDomain?)        *)
(* ------------------------------------------------------------------ *)

Digits == "0123456789"

\* the position of the first character of s that is one of chars, 0 if none
IndexOfAny(s, chars) ==
    IF \E i \in 1..Len(s) : Includes(chars, SubSeq(s, i, i))
    THEN CHOOSE i \in 1..Len(s) :
             /\ Includes(chars, SubSeq(s, i, i))
             /\ \A k \in 1..(i - 1) : ~Includes(chars, SubSeq(s, k, k))
    ELSE 0

\* the position of the last character of s that is one of chars, 0 if none
LastIndexOfAny(s, chars) ==
    IF \E i \in 1..Len(s) : Includes(chars, SubSeq(s, i, i))
    THEN CHOOSE i \in 1..Len(s) :
             /\ Includes(chars, SubSeq(s, i, i))
             /\ \A k \in (i + 1)..Len(s) : ~Includes(chars, SubSeq(s, k, k))
    ELSE 0

\* new URL(url) threw
InvalidUrl == [valid |-> FALSE, protocol |-> "", hostname |-> ""]

\* the schemes whose URLs have a host
SpecialSchemes == { "https", "http", "ftp", "ws", "wss", "file" }

\* the scheme of an absolute URL: a letter, then letters, digits, + - .
IsScheme(s) ==
    /\ Len(s) > 0
    /\ Includes(LowerAlphabet, LowerChar(SubSeq(s, 1, 1)))
    /\ \A i \in 1..Len(s) :
           Includes(LowerAlphabet \o Digits \o "+-.", LowerChar(SubSeq(s, i, i)))

\* the host of the part of a special URL that follows the scheme: the
\* slashes are skipped, the authority ends at the first / ? or #, the
\* userinfo before the last @ and the port after the last : are dropped
HostOf(rest) ==
    LET start == IF \E i \in 1..Len(rest) : ~Includes("/\\", SubSeq(rest, i, i))
                 THEN CHOOSE i \in 1..Len(rest) :
                          /\ ~Includes("/\\", SubSeq(rest, i, i))
                          /\ \A k \in 1..(i - 1) : Includes("/\\", SubSeq(rest, k, k))
                 ELSE Len(rest) + 1
        tail == SubSeq(rest, start, Len(rest))
        stop == IndexOfAny(tail, "/\\?#")
        authority == IF stop = 0 THEN tail ELSE SubSeq(tail, 1, stop - 1)
        at == LastIndexOfAny(authority, "@")
        hostPort == SubSeq(authority, at + 1, Len(authority))
        colon == IndexOfAny(hostPort, ":")
    IN  ToLowerCase(IF colon = 0 THEN hostPort ELSE SubSeq(hostPort, 1, colon - 1))

\* new URL(url): the protocol and the hostname, as the parser normalises them
ParseUrl(url) ==
    LET colon == IndexOfAny(url, ":")
        scheme == ToLowerCase(SubSeq(url, 1, colon - 1))
        rest == SubSeq(url, colon + 1, Len(url))
    IN  IF colon = 0 \/ ~IsScheme(SubSeq(url, 1, colon - 1)) THEN InvalidUrl
        ELSE IF scheme \in SpecialSchemes
        THEN IF scheme # "file" /\ HostOf(rest) = "" THEN InvalidUrl
             ELSE [valid |-> TRUE, protocol |-> scheme \o ":", hostname |-> HostOf(rest)]
        ELSE [valid |-> TRUE, protocol |-> scheme \o ":",
              hostname |-> IF StartsWith(rest, "//") THEN HostOf(rest) ELSE ""]

\* expectedDomain was not passed
NO_DOMAIN == "undefined"

\* a faulty variant: the hostname only has to contain expectedDomain
validateNavigationUrlIncludes(url, expectedDomain) ==
    LET parsed == ParseUrl(url)
    IN  /\ parsed.valid
        /\ parsed.protocol = "https:"
        /\ expectedDomain # NO_DOMAIN => Includes(parsed.hostname, expectedDomain)

validateNavigationUrl(url, expectedDomain) ==
    LET parsed == ParseUrl(url)
    IN  /\ parsed.valid
        /\ parsed.protocol = "https:"
        /\ expectedDomain # NO_DOMAIN => parsed.hostname = expectedDomain

\* URLs written out from their parts, with the scheme and the host they
\* were written from
UrlSchemes == { "https", "HTTPS", "http", "ftp" }
UrlHosts == { "example.com", "Example.COM", "google.com", "sub.example.com" }
UrlTails == { "", "/", "/search?q=1", ":8443/a", "#top" }
WrittenUrls ==
    { [text |-> scheme \o "://" \o hostname \o tail, absolute |-> TRUE,
       scheme |-> scheme, hostname |-> hostname] :
          scheme \in UrlSchemes, hostname \in UrlHosts, tail \in UrlTails }

\* strings that are no URL with a host: other schemes and relative references
OtherUrls ==
    { [text |-> "javascript:alert(1)", absolute |-> TRUE, scheme |-> "javascript",
       hostname |-> ""],
      [text |-> "data:text/html,hello", absolute |-> TRUE, scheme |-> "data",
       hostname |-> ""],
      [text |-> "about:blank", absolute |-> TRUE, scheme |-> "about", hostname |-> ""],
      [text |-> "", absolute |-> FALSE, scheme |-> "", hostname |-> ""],
      [text |-> "N/A", absolute |-> FALSE, scheme |-> "", hostname |-> ""],
      [text |-> "example.com", absolute |-> FALSE, scheme |-> "", hostname |-> ""],
      [text |-> "//example.com/path", absolute |-> FALSE, scheme |-> "", hostname |-> ""],
      [text |-> "/search?q=https://example.com", absolute |-> FALSE, scheme |-> "",
       hostname |-> ""],
      [text |-> "https://", absolute |-> FALSE, scheme |-> "", hostname |-> ""] }

ExpectedDomains == { NO_DOMAIN, "example.com", "google.com" }

NavigationUrlCalls ==
    { LogicCall("validateNavigationUrl", [url |-> u, expectedDomain |-> d]) :
          u \in WrittenUrls \cup OtherUrls, d \in ExpectedDomains }

ApplyValidateNavigationUrl ==
    /\ lg.fn = "validateNavigationUrl"
    /\ ReturnLogic(validateNavigationUrl(lg.args.url.text, lg.args.expectedDomain))

(* ------------------------------------------------------------------ *)
(* BrowserManager.determineRecoveryLevel(error), over written messages  *)
(* ------------------------------------------------------------------ *)

\* the words messages are written from: none, or a keyword in some case
CriticalWords == { "", "detached", "Target Crashed", "DISCONNECTED", "Protocol error" }
NavigationWords == { "", "navigation", "Timeout", "net::ERR_FAILED" }
OtherWords == { "Some other error", "Search failed: ", "" }

\* the errors a caller passes, each with the words it was written from
WrittenErrors ==
    { [error |-> Error(other \o first \o " / " \o second),
       critical |-> critical # "", navigation |-> navigation # ""] :
          <<first, second, critical, navigation>> \in
              { <<c, n, c, n>> : c \in CriticalWords, n \in NavigationWords } \cup
              { <<n, c, c, n>> : c \in CriticalWords, n \in NavigationWords },
          other \in OtherWords }

ManagerLevelCalls ==
    { LogicCall("BrowserManager.determineRecoveryLevel", a) :
          a \in WrittenErrors \cup
                { [error |-> UndefinedError, critical |-> FALSE, navigation |-> FALSE] } }

ApplyManagerRecoveryLevel ==
    /\ lg.fn = "BrowserManager.determineRecoveryLevel"
    /\ ReturnLogic(determineRecoveryLevel(lg.args.error))

(* ------------------------------------------------------------------ *)
(* request-timing: calculateExponentialBackoff(attemptNumber)           *)
(* ------------------------------------------------------------------ *)

\* Math.pow(2, e) in thousandths, exact for e >= -3
PowerOfTwo(e) == IF e >= 0 THEN 1000 * 2 ^ e ELSE 1000 \div 2 ^ (0 - e)

\* calculateExponentialBackoff(attemptNumber) with the value Math.random()
\* gave it; the delay is in thousandths of a millisecond
calculateExponentialBackoff(attemptNumber, random) ==
    LET baseDelayMs == 1000
        exponentialDelay == baseDelayMs * PowerOfTwo(attemptNumber - 1)
        maxDelay == 30000 * 1000
        randomJitter == random * 1000
    IN  MinOf(exponentialDelay + randomJitter, maxDelay)

\* the calls of calculateExponentialBackoff
ExponentialBackoffCalls ==
    { LogicCall("calculateExponentialBackoff", [attemptNumber |-> n, random |-> r]) :
          n \in 0..MaxAttempt, r \in Randoms }

ApplyCalculateExponentialBackoff ==
    /\ lg.fn = "calculateExponentialBackoff"
    /\ ReturnLogic(calculateExponentialBackoff(lg.args.attemptNumber, lg.args.random))

(* ------------------------------------------------------------------ *)
(* BrowserManager: deepMerge(target, source) over args arrays           *)
(* ------------------------------------------------------------------ *)

\* the args arrays of at most MaxArgs elements
ArgArrays == UNION { [1..n -> MergedArgs] : n \in 0..MaxArgs }

\* the calls of deepMerge
DeepMergeCalls ==
    { LogicCall("deepMerge", [target |-> WithArgs(t), source |-> WithArgs(o)]) :
          t \in ArgArrays, o \in ArgArrays }

ApplyDeepMerge ==
    /\ lg.fn = "deepMerge"
    /\ ReturnLogic(deepMerge(lg.args.target, lg.args.source))

LogicCalls ==
    RecoveryLevelCalls \cup RetryDelayCalls \cup NavigationUrlCalls \cup ManagerLevelCalls
        \cup ExponentialBackoffCalls \cup DeepMergeCalls

InitLogic ==
    /\ InitBrowserManager
    /\ InitSessionStore
    /\ now = 0
    /\ InitRequestTiming
    /\ InitTools
    /\ lg \in LogicCalls

NextLogic ==
    \/ ApplyDetermineRecoveryLevel
    \/ ApplyCalculateRetryDelay
    \/ ApplyValidateNavigationUrl
    \/ ApplyManagerRecoveryLevel
    \/ ApplyCalculateExponentialBackoff
    \/ ApplyDeepMerge

\* one call of a pure function of puppeteer-logic, over every argument
SpecLogic == InitLogic /\ [][NextLogic]_vars

(* ------------------------------------------------------------------ *)
(* Properties                                                          *)
(* ------------------------------------------------------------------ *)

\* call c is made in this step
Starts(c) == calls[c].pc = "idle" /\ calls'[c].pc # "idle"

\* C1: an initialize() call that starts while isInitializing is true returns
\* without a launch and without touching the handles or the flag, so under
\* every interleaving of initialize() calls at most one call is past the
\* flag and at most one launch is in flight.
C1_SingleLaunchInFlight ==
    /\ [][\A c \in Calls :
              (Starts(c) /\ isInitializing) =>
                  /\ calls'[c].pc = "skipped"
                  /\ UNCHANGED << handles, fields >>]_vars
    /\ [](Cardinality({ c \in Calls : calls[c].pc \in Awaiting }) <= 1)

\* a second call was skipped while the launch of the first is in flight
C1_SkippedDuringLaunch ==
    \E c, d \in Calls : calls[c].pc = "launching" /\ calls[d].pc = "skipped"

\* C2: puppeteer.launch is invoked with a dangerous flag among its args only
\* if allowDangerous or ALLOW_DANGEROUS is set for that call.
C2_LaunchArgsSafe ==
    \A c \in Calls : calls[c].pc = "launching" => ~calls[c].unsafe

\* the merged args of the call made in this step hold a dangerous flag
StartsDangerous ==
    LET merged == MergedConfig(launchOptions')
    IN  merged.hasArgs /\ \E i \in 1..Len(merged.args) : IsDangerousArg(merged.args[i])

\* the call made in this step has an override: its own or the environment's
StartsOverridden == allowDangerous' \/ env.allowDangerous

\* call c is rejected by the security validation in this step
RejectedAsDangerous(c) ==
    /\ calls'[c].pc = "done"
    /\ calls'[c].outcome = "rejected"
    /\ StartsWith(calls'[c].error.message, "Dangerous browser arguments detected")
    /\ UNCHANGED handles

\* C3 as stated: initialize() rejects with "Dangerous browser arguments
\* detected", without a launch and with the handles unchanged, whenever the
\* merged args hold a dangerous flag and no override is set; with the
\* override set the same call launches the browser.
C3_RejectsOrLaunches ==
    [][\A c \in Calls :
           (Starts(c) /\ calls'[c].pc # "skipped" /\ StartsDangerous) =>
               IF StartsOverridden
               THEN calls'[c].pc \in { "closing", "launching" }
               ELSE RejectedAsDangerous(c)]_vars

\* C3, amended: a call that is not skipped rejects as stated when the merged
\* args hold a dangerous flag and no override is set; with the override set
\* it passes the validation, and launches the browser unless it holds a
\* browser that is connected and whose launch options are unchanged, which
\* it keeps without a launch.
C3_RejectsOrLaunchesUnlessReused ==
    [][\A c \in Calls :
           (Starts(c) /\ calls'[c].pc # "skipped" /\ StartsDangerous) =>
               IF ~StartsOverridden
               THEN RejectedAsDangerous(c)
               ELSE IF /\ browser # 0
                       /\ browserConnected
                       /\ JSONStringify(launchOptions') = JSONStringify(previousLaunchOptions)
               THEN /\ calls'[c].pc = "done"
                    /\ calls'[c].outcome = "resolved"
                    /\ UNCHANGED handles
               ELSE calls'[c].pc \in { "closing", "launching" }]_vars

\* a call without args, made as root with no override, was rejected for the
\* --no-sandbox flag that running as root adds
C3_RootCallRejected ==
    \E c \in Calls :
        /\ calls[c].pc = "done"
        /\ calls[c].outcome = "rejected"
        /\ StartsWith(calls[c].error.message, "Dangerous browser arguments detected")
        /\ env.isRoot
        /\ ~env.allowDangerous
        /\ ~allowDangerous
        /\ browser = 0

\* the cleanup() call returns to its caller in this step
CleanupReturns == cl.pc # "returned" /\ cl'.pc = "returned"

\* C4: when cleanup() returns, the page and browser handles are null, no
\* idle timer is pending and isReady() is false, also when page.close() or
\* browser.close() rejected.
C4_CleanupReleasesHandles ==
    [][CleanupReturns =>
           /\ page' = 0
           /\ browser' = 0
           /\ timers' = { }
           /\ ~(browser' # 0 /\ page' # 0 /\ ~pageIsClosed' /\ ~isInitializing')]_vars

\* C5: cleanup() never raises: whatever clearing the timer, page.close() and
\* browser.close() do, the call returns normally, having completed or having
\* logged the error.
C5_CleanupNeverRaises ==
    /\ cl.outcome # "raised"
    /\ cl.pc = "returned" => cl.outcome \in { "completed", "logged" }
    /\ cl.pc \in { "idle", "closingPage", "closingBrowser" } => cl.outcome = "none"

\* cleanup() has returned although a close rejected
C5_ReturnedAfterCloseRejected == cl.pc = "returned" /\ cl.outcome = "logged"

\* C6: isReady() is true exactly when both handles are non-null, the page is
\* not closed and isInitializing is false; it is false before the first
\* initialize, while an initialize call is in flight, and once the page is
\* closed.
C6_ReadyOnlyWhenSettled ==
    /\ isReady <=> (browser # 0 /\ page # 0 /\ ~pageIsClosed /\ ~isInitializing)
    /\ (\A c \in Calls : calls[c].pc = "idle") /\ cleanups = 0 => ~isReady
    /\ (\E c \in Calls : calls[c].pc \in Awaiting) => ~isReady
    /\ pageIsClosed => ~isReady

\* a performSearch() call is made in this step
SearchStarts == searches' = searches + 1

\* C7: performSearch calls initialize() before navigating exactly when
\* isReady() is false at its start: a handle is null, the page is closed or
\* an initialize is in progress. The search navigates only once that call
\* is back, so a search that arrives after cleanup released the browser
\* initializes again and goes on.
C7_InitializesWhenNotReady ==
    /\ [][SearchStarts =>
              LET ready == browser # 0 /\ page # 0 /\ ~pageIsClosed /\ ~isInitializing
              IN  IF ready
                  THEN ps'.call = 0 /\ ps'.pc = "navigate" /\ calls' = calls
                  ELSE ps'.call # 0 /\ Starts(ps'.call)]_vars
    /\ [](ps.pc \in { "navigate", "selector", "answer" } /\ ps.call # 0
              => calls[ps.call].pc \in { "skipped", "done" })

\* an earlier initialize had resolved, cleanup released the browser, the
\* next search found it not ready, called initialize and now navigates with
\* a browser and an open page
C7_SearchAfterCleanupNavigates ==
    /\ calls[1].pc = "done"
    /\ calls[1].outcome = "resolved"
    /\ ps.call = 2
    /\ cleanups > 0
    /\ cl.pc = "returned"
    /\ cl.outcome = "completed"
    /\ ps.pc = "navigate"
    /\ ps.call # 0
    /\ calls[ps.call].pc = "done"
    /\ isReady

\* the messages a failed search may resolve with for its error
DescribesError(result, error) ==
    \/ result = TimeoutResponse
    \/ result = NavigationResponse
    \/ result = TechnicalResponse
    \/ /\ result = GenericResponse(error.message)
       /\ Includes(result, error.message)

\* C8: performSearch never rejects: when initialize or a step fails, it calls
\* performRecovery with that error and then resolves with a descriptive
\* message (timeout, navigation, technical, or generic with the raw text);
\* otherwise it resolves with the answer.
C8_SearchNeverRejects ==
    /\ [][ps'.pc = "returned" /\ ps.pc # "returned" =>
              \/ ps.pc = "answer" /\ ~ps.error.isError
              \/ ps.pc = "recovering" /\ ps.error.isError]_vars
    /\ [](/\ ps.pc \in { "idle", "initialize", "navigate", "selector", "answer", "caught",
                         "recovering", "returned" }
          /\ ps.pc \in { "caught", "recovering" } => ps.error.isError
          /\ ps.pc = "recovering" =>
                 rec.pc = "applying" /\ rec.by = "search" /\ rec.error = ps.error
          /\ ps.pc = "returned" =>
                 IF ps.error.isError
                 THEN DescribesError(ps.result, ps.error)
                 ELSE ps.result = Answer)

\* a search whose step failed with "Search failed" has resolved with the
\* generic message
C8_FailedSearchResolved ==
    /\ ps.pc = "returned"
    /\ ps.error = Error("Search failed")
    /\ ps.result = GenericResponse("Search failed")

\* the level the state of the handles calls for
EnvironmentLevel ==
    IF browser = 0 \/ ~browserConnected THEN 3
    ELSE IF page = 0 \/ pageIsClosed THEN 2
    ELSE 1

\* C9: the recovery level computed for a failure is never lower than the
\* level its environment implies at that moment: 3 without a connected
\* browser, at least 2 without an open page.
C9_LevelCoversEnvironment ==
    [][rec.pc = "idle" /\ rec'.pc = "applying" /\ rec'.error.isError =>
           rec'.level >= EnvironmentLevel]_vars

\* C10: performRecovery applies the one structural action of its level:
\* level 1 leaves both handles, level 2 replaces the page by a fresh page of
\* the same browser and leaves the browser, level 3 discards both.
C10_AppliesActionOfLevel ==
    [][rec.pc = "applying" /\ rec'.pc = "idle" =>
           CASE rec.level = 1 -> UNCHANGED << browser, page >>
             [] rec.level = 2 ->
                    /\ browser' = browser
                    /\ page' # 0
                    /\ page' # page
                    /\ pageOwner' = browser
                    /\ browser # 0
             [] rec.level = 3 -> browser' = 0 /\ page' = 0]_vars

\* the call of a pure function that has returned
Returned(fn) == lg.fn = fn /\ lg.done

\* the raw message of the error holds one of the critical phrases
IsCritical(error) ==
    error.isError /\ \E m \in CriticalMessages : Includes(error.message, m)

\* the environment argument reports a missing or disconnected browser
BrowserLost(environment) ==
    environment.given /\ (~environment.hasBrowser \/ ~environment.isBrowserConnected)

\* C11: determineRecoveryLevel(error, environment) of puppeteer-logic returns
\* the first match of: no error gives 1; a message holding 'frame detached',
\* 'session closed' or 'target closed' gives 3 even when the environment is
\* healthy; hasBrowser or isBrowserConnected false gives 3; hasValidPage
\* false gives 2; anything else gives 1.
C11_FirstMatchDecides ==
    Returned("determineRecoveryLevel") =>
        LET error == lg.args.error
            environment == lg.args.environment
        IN  /\ ~error.isError => lg.result = 1
            /\ IsCritical(error) => lg.result = 3
            /\ (error.isError /\ ~IsCritical(error) /\ BrowserLost(environment))
                   => lg.result = 3
            /\ (error.isError /\ ~IsCritical(error) /\ ~BrowserLost(environment)
                    /\ environment.given /\ ~environment.hasValidPage)
                   => lg.result = 2
            /\ (error.isError /\ ~IsCritical(error) /\ ~BrowserLost(environment)
                    /\ (environment.given => environment.hasValidPage))
                   => lg.result = 1

\* a critical message decided level 3 although the environment is healthy
C11_CriticalOverHealthy ==
    /\ Returned("determineRecoveryLevel")
    /\ IsCritical(lg.args.error)
    /\ lg.args.environment.given
    /\ lg.args.environment.hasBrowser
    /\ lg.args.environment.isBrowserConnected
    /\ lg.args.environment.hasValidPage
    /\ lg.result = 3

\* the message of the error holds the word in some letter case
IncludesAnyCase(error, word) ==
    error.isError /\ Includes(ToLowerCase(error.message), word)

\* the errors whose message tells of a lost browser
LossErrors ==
    { error \in RecoveryErrors :
          \E word \in { "detached", "crashed", "disconnected" } : IncludesAnyCase(error, word) }

\* the error of the recovery under way tells of a lost browser
RecoversFromLoss == rec.pc = "applying" /\ rec.error \in LossErrors

\* C12: for every error whose message contains, in any letter case,
\* 'detached', 'crashed' or 'disconnected', determineRecoveryLevel of the
\* manager returns 3 whatever the state of the browser and the page.
C12_LossGivesLevel3 == RecoversFromLoss => rec.level = 3

\* level 3 was computed for 'Browser has CRASHED' with a connected browser
\* and an open page
C12_CrashedWhileHealthy ==
    /\ RecoversFromLoss
    /\ rec.error.message = "Browser has CRASHED"
    /\ browser # 0 /\ browserConnected
    /\ page # 0 /\ ~pageIsClosed
    /\ rec.level = 3

\* the times the clock shows
Times == { k * ClockStep : k \in 0..MaxTicks }

\* the initialize() calls made so far
Started == { c \in Calls : calls[c].pc # "idle" }

\* the idle timer set by the last successful operation is pending and due
\* at time d, after k initialize() and n cleanup() calls, none under way
IdleSince(d, k, n) ==
    /\ \E t \in timers : t.id = idleTimeout /\ t.due = d
    /\ Cardinality(Started) = k
    /\ cleanups = n
    /\ \A c \in Calls : calls[c].pc \notin Awaiting
    /\ cl.pc \in { "idle", "returned" }

\* a further operation was made: a call, or a reset at a later time
ActedSince(d, k, n) ==
    \/ Cardinality(Started) # k
    \/ cleanups # n
    \/ \E t \in timers : t.due > d

\* a timer fires in this step: it leaves the pending timers, and neither a
\* cleanup() call of a caller nor a reset took it away
IdleTimerFiresNow ==
    /\ timers' # timers
    /\ timers' \subseteq timers
    /\ cleanups' = cleanups

C14_SingleIdleTimer ==
    /\ [](Cardinality(timers) <= 1 /\ \A t \in timers : t.id = idleTimeout)
    /\ [][cleanups' # cleanups => timers' = { }]_vars
    /\ [][IdleTimerFiresNow => (timers' = { } /\ \A t \in timers : t.id = idleTimeout)]_vars

\* a reset has cancelled a pending timer and set the only timer pending now
C14_TimerReplaced ==
    \E t \in timers : t.replaced /\ t.id = idleTimeout /\ timers = { t } /\ t.due > now

(* ------------------------------------------------------------------ *)
(* session-manager: properties                                         *)
(* ------------------------------------------------------------------ *)

\* a call of the session store has returned, and none of its file-system
\* or page calls failed
SessionReturned(op) == so.op = op /\ so.pc = "done"
NothingFailed == ~so.failed

\* the calls restoreSessionCookies makes on the page for a stored session
AppliedFor(session) ==
    (IF Len(session.cookies) > 0 THEN << << "setCookie", session.cookies >> >> ELSE << >>)
    \o (IF Len(session.localStorage) > 0
        THEN << << "evaluateOnNewDocument", session.localStorage >> >>
        ELSE << >>)

\* C15: when restoreSessionCookies has returned and no file-system or page
\* call of the run failed: with no file for the id it returned false and
\* made no call on the page; with a stored timestamp older than the expiry
\* window it returned false, made no call on the page and the file is gone;
\* with a stored timestamp at most the expiry window old it returned true
\* and applied the cookies and the localStorage of the file.
C15_RestoreCases ==
    (SessionReturned("restore") /\ NothingFailed) =>
        LET file == files[getSessionPath(so.sessionId)]
        IN  /\ ~so.existed =>
                   so.result = "false" /\ so.applied = << >>
            /\ (so.existed /\ so.age > expiryMs) =>
                   so.result = "false" /\ so.applied = << >> /\ ~file.exists
            /\ (so.existed /\ so.age <= expiryMs) =>
                   /\ so.result = "true"
                   /\ file.exists
                   /\ so.applied = AppliedFor(JSONParseSession(file.text))

\* C15 witness: a restore found a session older than the window and removed it
C15_ExpiredSessionRemoved ==
    /\ SessionReturned("restore") /\ NothingFailed
    /\ so.existed /\ so.age > expiryMs
    /\ ~files[getSessionPath(so.sessionId)].exists

\* the cookies and the localStorage entries a run applied to the page
RECURSIVE AppliedBy(_, _)
AppliedBy(applied, method) ==
    IF applied = << >> THEN << >>
    ELSE (IF Head(applied)[1] = method THEN Head(applied)[2] ELSE << >>)
         \o AppliedBy(Tail(applied), method)

\* the session of the id is the one its last save wrote: no later save cut
\* the file short, and neither deleteSession nor an expiry removed it
SavedSession(sessionId) == saved[sessionId].state = "saved"

\* C16: when restoreSessionCookies(id) has returned without a failed
\* file-system or page call, the session of id is the one the last
\* successful saveSessionCookies(id) wrote and its age was at most the expiry
\* window, the run returned true and applied to the page exactly the cookies
\* page.cookies() had returned to that save, in their order, and exactly
\* the localStorage entries that save had collected.
C16_RoundTrip ==
    (/\ SessionReturned("restore") /\ NothingFailed
     /\ SavedSession(so.sessionId)
     /\ so.age <= expiryMs) =>
        /\ so.result = "true"
        /\ AppliedBy(so.applied, "setCookie") = saved[so.sessionId].cookies
        /\ AppliedBy(so.applied, "evaluateOnNewDocument") = saved[so.sessionId].localStorage

\* C16 witness: two cookies and a localStorage entry came back from the store
C16_TwoCookiesRestored ==
    /\ SessionReturned("restore") /\ NothingFailed
    /\ SavedSession(so.sessionId)
    /\ so.result = "true"
    /\ Len(saved[so.sessionId].cookies) = 2
    /\ Len(AppliedBy(so.applied, "setCookie")) = 2
    /\ Len(AppliedBy(so.applied, "evaluateOnNewDocument")) = 1

\* the file of an id holds the session the record of the id tells
HoldsSaved(sessionId) ==
    LET file == files[getSessionPath(sessionId)]
    IN  /\ file.exists
        /\ file.text.valid
        /\ JSONParseSession(file.text) =
               [cookies |-> saved[sessionId].cookies,
                localStorage |-> saved[sessionId].localStorage,
                timestamp |-> saved[sessionId].timestamp]

\* C17: for each session id, unless a write for the id failed part-way:
\* the store holds the session of the id in one file, and it is the one the
\* most recent successful saveSessionCookies(id) wrote, as long as neither
\* a deleteSession(id) nor an expiry has removed the file since; once one of
\* them has, or before any save, the store holds no file for the id. And a
\* restoreSessionCookies(id) that returns after deleteSession(id) removed
\* the file or found none, with no save of the id since, found no file,
\* returned false and applied nothing.
C17_OneSessionPerId ==
    /\ \A sessionId \in SessionIds :
           /\ saved[sessionId].state = "saved" => HoldsSaved(sessionId)
           /\ saved[sessionId].state \in { "none", "deleted", "expired" } =>
                  ~files[getSessionPath(sessionId)].exists
    /\ (SessionReturned("restore") /\ saved[so.sessionId].state = "deleted") =>
           so.result = "false" /\ ~so.existed /\ so.applied = << >>

\* C17 witness: a restore ran right after deleteSession had removed the
\* file of the id
C17_RestoreAfterDelete ==
    /\ SessionReturned("restore")
    /\ saved[so.sessionId].state = "deleted"
    /\ so.before.op = "delete" /\ ~so.before.failed

\* a sweep has returned that was called right after a sweep in which no
\* file-system call failed, and the clock has not moved since that first
\* sweep was called
SecondSweepReturned ==
    /\ SessionReturned("clear")
    /\ so.before.op = "clear" /\ ~so.before.failed
    /\ now = so.before.startedAt

\* C18: when clearExpiredSessions has run twice in a row, with no other call
\* of the session store between the two runs and no step of the clock since
\* the first was called, and no file-system call of the first run failed,
\* the second run has deleted no file: unlink, the only step of a sweep that
\* alters the store, was not reached, so the store is as the first run left it.
C18_SweepIdempotent ==
    SecondSweepReturned => so.deletedCount = 0

\* C18 witness: the second sweep followed one that had deleted a file
C18_SecondSweepAfterDeletion ==
    /\ SecondSweepReturned
    /\ so.before.deletedCount > 0
    /\ so.deletedCount = 0

\* the steps that take a call of the session store on
SessionStep ==
    saveSessionCookies \/ restoreSessionCookies \/ clearExpiredSessions \/ deleteSession

\* C19: saveSessionCookies, restoreSessionCookies, clearExpiredSessions and
\* deleteSession never propagate an error: a call that has not returned can
\* always go on, a call returns a value and never throws, every file-system,
\* parse or page failure of a call is logged, a restore in which a call
\* failed returns false, and a deleteSession for an id without a file
\* returns normally.
C19_NeverPropagates ==
    /\ so.pc # "done" => ENABLED SessionStep
    /\ so.pc = "done" => so.result \in { "none", "void", "true", "false" }
    /\ ~so.unlogged
    /\ (SessionReturned("restore") /\ so.failed) => so.result = "false"
    /\ (SessionReturned("delete") /\ ~so.existed) => so.result = "void"

(* ------------------------------------------------------------------ *)
(* puppeteer-logic: properties of calculateRetryDelay                  *)
(* ------------------------------------------------------------------ *)

\* C20: for every attemptNumber >= 0 and every ErrorAnalysis the delay
\* calculateRetryDelay returns is at most 30000 ms, at least
\* min(1000 * 2^attemptNumber, 30000) ms, at least 5000 ms when isTimeout is
\* set and at least 8000 ms when isNavigation is set.
C20_DelayBounds ==
    Returned("calculateRetryDelay") =>
        /\ lg.result <= 30000
        /\ lg.result >= Min(1000 * 2 ^ lg.args.attemptNumber, 30000)
        /\ lg.args.analysis.isTimeout => lg.result >= 5000
        /\ lg.args.analysis.isNavigation => lg.result >= 8000

\* C20 witness: a late attempt after consecutive navigation errors is
\* cut at the ceiling
C20_CappedAtCeiling ==
    /\ Returned("calculateRetryDelay")
    /\ lg.args.attemptNumber >= 5
    /\ lg.args.analysis.isNavigation /\ lg.args.fatigue > 0
    /\ lg.result = 30000

(* ------------------------------------------------------------------ *)
(* request-timing: properties of the stats and of the values computed   *)
(* ------------------------------------------------------------------ *)

\* the stats object came from initializeRequestStats and only
\* updateRequestStats has changed it since
FreshStats == rt.made

\* calculateAdaptiveDelay was the last function to return
DelayComputed == rt.out.fn = "calculateAdaptiveDelay"

\* generateNetworkProfile was the last function to return
ProfileGenerated == rt.out.fn = "generateNetworkProfile"

\* C21: after k >= 1 calls of updateRequestStats on a fresh stats object,
\* totalRequests is k, averageResponseTime is the sum of the k reported
\* durations divided by k, exactly, and minDelay and maxDelay are the values
\* initializeRequestStats gave them.
C21_ExactRunningMean ==
    (FreshStats /\ rt.updates >= 1) =>
        /\ rt.stats.totalRequests = rt.updates
        /\ rt.stats.averageResponseTime = Divide(Double(rt.sum), rt.updates)
        /\ rt.stats.minDelay = 100
        /\ rt.stats.maxDelay = 2500

\* the delay clamp(minDelay, maxDelay, (baseDelay + fatigue) * r) for one r,
\* in thousandths of a millisecond; r is in thousandths
ClampedDelay(stats, r) ==
    LET quick == Floor(stats.averageResponseTime) < 500
        moderate == Floor(stats.averageResponseTime) < 2000
        base == IF quick THEN 200 ELSE IF moderate THEN 500 ELSE 1000
        fatigue == IF 50 * stats.totalRequests < 500 THEN 50 * stats.totalRequests ELSE 500
        raw == (base + fatigue) * r
    IN  IF raw < stats.minDelay * 1000 THEN stats.minDelay * 1000
        ELSE IF raw > stats.maxDelay * 1000 THEN stats.maxDelay * 1000
        ELSE raw

\* C22: on stats that initializeRequestStats made and only updateRequestStats
\* changed, every delay calculateAdaptiveDelay returns is between 100 and
\* 2500 ms, and once a request was counted it is
\* clamp(minDelay, maxDelay, (baseDelay + min(50 * totalRequests, 500)) * r)
\* for some r between 0.5 and 1.5, with baseDelay 200 below an average of
\* 500 ms, 500 below 2000 ms and 1000 from there on.
C22_AdaptiveDelayBounds ==
    (FreshStats /\ DelayComputed) =>
        /\ rt.out.delay >= 100 * 1000
        /\ rt.out.delay <= 2500 * 1000
        /\ rt.stats.totalRequests >= 1 =>
               \E r \in 500..1500 : rt.out.delay = ClampedDelay(rt.stats, r)

\* C22 witness: a delay computed after ten slow requests, with the fatigue
\* at its cap and the slow base delay
C22_SlowAndTired ==
    /\ FreshStats /\ DelayComputed
    /\ rt.stats.totalRequests = 10
    /\ ~LessThan(rt.stats.averageResponseTime, 2000)
    /\ rt.out.delay = (1000 + 500) * (500 + 999)

\* C23: with totalRequests at 0, calculateAdaptiveDelay returns a delay
\* between 100 and 300 ms whatever the other fields of the stats hold.
C23_FirstRequestDelay ==
    (DelayComputed /\ rt.stats.totalRequests = 0) =>
        /\ rt.out.delay >= 100 * 1000
        /\ rt.out.delay <= 300 * 1000

\* C23 witness: the first delay of a stats object whose minDelay is above
\* 300 ms and whose maxDelay is below 100 ms
C23_HandMadeFirstDelay ==
    /\ DelayComputed /\ ~FreshStats
    /\ rt.stats.totalRequests = 0
    /\ rt.stats.minDelay > 300 /\ rt.stats.maxDelay < 100
    /\ rt.out.random = 999

\* C24: every profile generateNetworkProfile returns has requestVariability
\* between 0.3 and 0.7, responseTimeMultiplier between 0.8 and 1.2,
\* readingPaceMultiplier between 0.8 and 1.2 and minRequestDelay below
\* maxRequestDelay.
C24_ProfileRanges ==
    ProfileGenerated =>
        LET profile == rt.out.profile
        IN  /\ profile.requestVariability >= 300 * 1000
            /\ profile.requestVariability <= 700 * 1000
            /\ profile.responseTimeMultiplier >= 800 * 1000
            /\ profile.responseTimeMultiplier <= 1200 * 1000
            /\ profile.readingPaceMultiplier >= 800 * 1000
            /\ profile.readingPaceMultiplier <= 1200 * 1000
            /\ profile.minRequestDelay < profile.maxRequestDelay

(* ------------------------------------------------------------------ *)
(* SearchEngine: properties of waitForCompleteAnswer                    *)
(* ------------------------------------------------------------------ *)

\* every response selector was waited for and none was found
AllSelectorsRejected == wa.rejected = Range(RESPONSE_SELECTORS)

\* C25: waitForCompleteAnswer tries the response selectors strictly in list
\* order, returns on the first selector that is found without trying a later
\* one, and when every selector has failed it throws 'No response elements
\* found on page' to its caller and returns no value.
C25_SelectorsInOrder ==
    LET n == Len(wa.tried)
    IN  /\ wa.tried = SubSeq(RESPONSE_SELECTORS, 1, n)
        /\ wa.found # "" =>
               /\ wa.found = wa.tried[n]
               /\ wa.rejected = Range(SubSeq(RESPONSE_SELECTORS, 1, n - 1))
        /\ wa.outcome = "returned" => wa.found # "" /\ wa.error = UndefinedError
        /\ (wa.pc = "done" /\ AllSelectorsRejected) =>
               /\ wa.outcome = "threw"
               /\ wa.error = Error("No response elements found on page")
               /\ wa.result = ""
        /\ wa.outcome = "threw" => AllSelectorsRejected /\ wa.found = ""

\* C25 witness: the last selector was waited for after the three before it
\* and failed as well, so the call threw
C25_EverySelectorFailed ==
    /\ wa.pc = "done" /\ wa.outcome = "threw"
    /\ wa.tried = RESPONSE_SELECTORS
    /\ AllSelectorsRejected

(* ------------------------------------------------------------------ *)
(* chat_perplexity: properties of the prompt and the history            *)
(* ------------------------------------------------------------------ *)

\* the line of one message of a chat
PromptLine(msg) ==
    (IF msg.role = "user" THEN "User: " ELSE "Assistant: ") \o msg.content \o "\n"

RECURSIVE PromptLines(_)
PromptLines(messages) ==
    IF messages = << >> THEN ""
    ELSE PromptLines(SubSeq(messages, 1, Len(messages) - 1))
             \o PromptLine(messages[Len(messages)])

\* C27: for a chat_perplexity call on an existing chat_id the prompt
\* submitted to the search engine is the earlier messages of the chat in
\* stored order, each prefixed 'User:' or 'Assistant:', followed by the new
\* user message, and the new user message is appended to the history of the
\* chat exactly once.
C27_PromptCarriesHistory ==
    (chat.pc = "done" /\ chat.chat_id # NO_CHAT_ID /\ chat.before # << >>) =>
        /\ chat.submitted
               = << PromptLines(Append(chat.before, ChatMessage("user", chat.message))) >>
        /\ chat.db[chat.chat_id] = Append(chat.before, ChatMessage("user", chat.message))

(* ------------------------------------------------------------------ *)
(* puppeteer-logic: properties of validateNavigationUrl                *)
(* ------------------------------------------------------------------ *)

\* C26: validateNavigationUrl(url, expectedDomain?) returns true exactly when
\* url is an absolute URL whose scheme is https and, if expectedDomain is
\* given, whose hostname equals expectedDomain; every other scheme and every
\* string that is no URL gives false.
C26_HttpsAndDomain ==
    Returned("validateNavigationUrl") =>
        LET url == lg.args.url
            domain == lg.args.expectedDomain
        IN  lg.result =
                (/\ url.absolute
                 /\ ToLowerCase(url.scheme) = "https"
                 /\ domain # NO_DOMAIN => ToLowerCase(url.hostname) = domain)

\* C26 witness: an https URL with a port and a path is accepted for the
\* domain it names
C26_AcceptedForDomain ==
    /\ Returned("validateNavigationUrl")
    /\ lg.args.url.text = "https://example.com:8443/a"
    /\ lg.args.expectedDomain = "example.com"
    /\ lg.result = TRUE

(* ------------------------------------------------------------------ *)
(* BrowserManager: initialize() against the handles and cleanup()       *)
(* ------------------------------------------------------------------ *)

\* call c went through ensureBrowser and resolves in this step
ResolvesNow(c) ==
    /\ calls[c].outcome # "resolved"
    /\ calls'[c].pc = "done"
    /\ calls'[c].outcome = "resolved"

\* C28: whenever initialize() resolves without error, isReady() is true
\* afterwards, a browser and an open page being held, whatever the state of
\* the manager was before, a connected browser with a null or closed page
\* included.
C28_ResolvedMeansReady ==
    [][\A c \in Calls :
           ResolvesNow(c) =>
               /\ browser' # 0
               /\ page' # 0
               /\ ~pageIsClosed'
               /\ ~isInitializing']_vars

\* the initialize() calls that await puppeteer.launch
Launching == { c \in Calls : calls[c].pc = "launching" }

\* C29: under any interleaving of initialize() and cleanup() calls at most
\* one puppeteer.launch is in flight at a time; a cleanup that runs while an
\* initialize is in flight does not let a further initialize start a second
\* launch.
C29_OneLaunchAcrossCleanup == Cardinality(Launching) <= 1

\* call c takes a step
Moves(c) == calls'[c] # calls[c]

\* the last cleanup() reset the handles and returned while call c was in
\* flight, and no cleanup() has been called since
OutlivedCleanup(c) == cl.pc = "returned" /\ cl.outcome = "completed" /\ c \in cl.during

\* C30: once cleanup() has returned, the browser and page handles stay null
\* until an initialize() call that starts after that cleanup; an initialize
\* that was in flight when the cleanup ran installs no browser or page handle
\* afterwards.
C30_NoHandleAfterCleanup ==
    [][\A c \in Calls :
           (OutlivedCleanup(c) /\ Moves(c)) =>
               /\ browser' \in { browser, 0 }
               /\ page' \in { page, 0 }]_vars

(* ------------------------------------------------------------------ *)
(* BrowserManager: the flag, the level and the handles                 *)
(* ------------------------------------------------------------------ *)

\* the initialize() calls that are in flight
InFlight == { c \in Calls : calls[c].pc \in Awaiting }

\* the launch of call c fails in this step
LaunchFails(c) == calls[c].pc = "launching" /\ calls'[c].outcome = "rejected"

\* C31: when the browser launch fails, initialize() rejects with the launch
\* error and isInitializing is false afterwards, so a later initialize() runs
\* instead of being skipped as already in progress; isInitializing is false
\* whenever no initialize call is in flight.
C31_FlagLoweredAfterFailure ==
    /\ [][\A c \in Calls :
              LaunchFails(c) =>
                  /\ calls'[c].pc = "done"
                  /\ calls'[c].error = Error(LaunchFailed)
                  /\ ~isInitializing']_vars
    /\ [][\A c \in Calls :
              (Starts(c) /\ InFlight = { }) => calls'[c].pc # "skipped"]_vars
    /\ [](InFlight = { } => ~isInitializing)

\* C31 witness: a call is past the flag after the launch of an earlier call
\* failed
C31_RunsAfterFailedLaunch ==
    \E c, d \in Calls :
        /\ c < d
        /\ calls[c].outcome = "rejected" /\ calls[c].error = Error(LaunchFailed)
        /\ calls[d].pc = "launching"
        /\ cleanups = 0

\* C32: determineRecoveryLevel(error) of BrowserManager returns 1 when there
\* is no error, 3 when the lower-cased message contains a level-3 keyword
\* (detached, crashed, disconnected, protocol error), also together with a
\* level-2 keyword, 2 when it contains navigation, timeout or net::err and no
\* level-3 keyword, and 1 for every other message.
C32_LevelFromKeywords ==
    Returned("BrowserManager.determineRecoveryLevel") =>
        lg.result = IF ~lg.args.error.isError THEN 1
                    ELSE IF lg.args.critical THEN 3
                    ELSE IF lg.args.navigation THEN 2
                    ELSE 1

\* C32 witness: a message with a level-2 keyword ahead of a level-3 keyword,
\* neither in lower case, gives level 3
C32_CriticalAfterNavigation ==
    /\ Returned("BrowserManager.determineRecoveryLevel")
    /\ lg.args.error = Error("Search failed: Timeout / Target Crashed")
    /\ lg.result = 3

\* call c calls puppeteer.launch in this step
LaunchesNow(c) == calls[c].pc # "launching" /\ calls'[c].pc = "launching"

\* call c starts in this step, is not skipped and passes the validation
\* holding a connected browser whose launch options are unchanged
StartsWithUsableBrowser(c) ==
    /\ Starts(c)
    /\ calls'[c].pc # "skipped"
    /\ ~(calls'[c].pc = "done" /\ calls'[c].outcome = "rejected")
    /\ browser # 0 /\ browserConnected
    /\ JSONStringify(launchOptions') = JSONStringify(previousLaunchOptions)

\* C33: initialize() launches a new browser only when no browser handle is
\* held at that point; a held, connected browser whose launch options are
\* unchanged is reused without a launch, with the same browser and page
\* handles; with changed options or a disconnected browser the old handle is
\* closed or dropped before the launch; so a browser is never installed over
\* one that is still held.
C33_LaunchOnlyWithoutBrowser ==
    [][/\ \A c \in Calls :
              /\ LaunchesNow(c) => browser' = 0
              /\ StartsWithUsableBrowser(c) =>
                     /\ calls'[c].pc = "done" /\ calls'[c].outcome = "resolved"
                     /\ browser' = browser /\ page' = page
              /\ (Starts(c) /\ calls'[c].pc = "closing") =>
                     (browser # 0 => calls'[c].target = browser)
       /\ (browser' # browser /\ browser' # 0) => browser = 0]_vars

\* the launch args accumulated in this.launchOptions hold a dangerous flag
AccumulatedDangerous(options) ==
    options.hasArgs /\ \E i \in 1..Len(options.args) : IsDangerousArg(options.args[i])

\* C34: the allowDangerous override is not retained between calls: an
\* initialize() that runs (it is not skipped) without setting allowDangerous,
\* with ALLOW_DANGEROUS unset, is rejected whenever the accumulated launch
\* args hold a dangerous flag, also when an earlier initialize with the same
\* args was allowed by its own override.
C34_OverrideNotRetained ==
    [][\A c \in Calls :
           (/\ Starts(c)
            /\ calls'[c].pc # "skipped"
            /\ ~allowDangerous'
            /\ ~env.allowDangerous
            /\ AccumulatedDangerous(launchOptions')) => RejectedAsDangerous(c)]_vars

\* C34 witness: a call was rejected for the dangerous args with which an
\* earlier call, under its own override, went through
C34_RejectedAfterAllowed ==
    \E c, d \in Calls :
        /\ c < d
        /\ calls[c].pc = "done" /\ calls[c].outcome = "resolved"
        /\ calls[d].pc = "done" /\ calls[d].outcome = "rejected"
        /\ StartsWith(calls[d].error.message, "Dangerous browser arguments detected")
        /\ ~env.allowDangerous /\ ~env.isRoot /\ env.config = EmptyOptions
        /\ ~allowDangerous
        /\ AccumulatedDangerous(launchOptions)
        /\ previousLaunchOptions = launchOptions

\* an initialize() call was rejected by the security validation
RejectedBefore ==
    \E d \in Calls :
        /\ calls[d].pc = "done" /\ calls[d].outcome = "rejected"
        /\ StartsWith(calls[d].error.message, "Dangerous browser arguments detected")

\* the process adds no dangerous flag of its own
CleanEnvironment == ~env.isRoot /\ ~AccumulatedDangerous(env.config)

\* C35: a dangerous-argument rejection does not affect later calls: after a
\* rejected initialize(), an initialize() that runs with options of its own
\* that hold no dangerous flag, not as root and with no dangerous flag in
\* PUPPETEER_LAUNCH_OPTIONS, passes the validation and launches a browser.
C35_RejectionLeavesNoTrace ==
    [][\A c \in Calls, options \in CallLaunchOptions, allow \in BOOLEAN :
           (/\ RejectedBefore
            /\ CleanEnvironment
            /\ ~AccumulatedDangerous(options)
            /\ InitializeCall(c, "caller", options, allow)
            /\ calls'[c].pc # "skipped") =>
               /\ ~RejectedAsDangerous(c)
               /\ calls'[c].pc \in { "closing", "launching" }]_vars


\* C36: in every state reached through initialize() and cleanup(), a page
\* handle that is not null comes with a browser handle that is not null.
C36_PageImpliesBrowser ==
    page # 0 => browser # 0


(* ------------------------------------------------------------------ *)
(* request-timing: properties of calculateExponentialBackoff            *)
(* ------------------------------------------------------------------ *)

\* C37: for every attempt number n >= 0 calculateExponentialBackoff(n)
\* returns a delay of at most 30000 ms that is at least
\* min(1000 * 2^n, 30000) ms, and the least delay it can return for n is
\* not below the least delay it can return for n - 1.
C37_BackoffBounds ==
    Returned("calculateExponentialBackoff") =>
        LET n == lg.args.attemptNumber
        IN  /\ lg.result <= 30000 * 1000
            /\ lg.result >= MinOf(1000 * 2 ^ n, 30000) * 1000
            /\ n > 0 => calculateExponentialBackoff(n - 1, 0)
                            <= calculateExponentialBackoff(n, 0)


(* ------------------------------------------------------------------ *)
(* BrowserManager: properties of deepMerge                              *)
(* ------------------------------------------------------------------ *)

\* the flag name of an arg: the text before '='
FlagName(arg) == ArgPrefix(arg)

\* C38: when launch args are merged every override arg is in the result, no
\* arg is in it twice, and a base arg is missing from it only when some
\* override arg has the same flag name: base args whose flag name differs
\* from every override's are all kept.
C38_MergedArgs ==
    Returned("deepMerge") =>
        LET base == lg.args.target.args
            override == lg.args.source.args
            merged == lg.result.args
        IN  /\ Range(override) \subseteq Range(merged)
            /\ \A i, j \in 1..Len(merged) : merged[i] = merged[j] => i = j
            /\ \A arg \in Range(base) \ Range(merged) :
                   \E launchArg \in Range(override) : FlagName(launchArg) = FlagName(arg)


(* ------------------------------------------------------------------ *)
(* session-manager: a save that fails, and the two tests of expiry      *)
(* ------------------------------------------------------------------ *)

\* restoreSessionCookies would find the session of the id: the file is
\* there, it parses, and its stored timestamp is within the expiry window
Restorable(sessionId) ==
    LET file == files[getSessionPath(sessionId)]
    IN  /\ file.exists
        /\ file.text.valid
        /\ ~IsExpired(now - JSONParseSession(file.text).timestamp)

\* a step of saveSessionCookies up to its reading of the page: the call,
\* the mkdir, page.cookies() resolving
SaveBeforeWrite ==
    /\ so' # so
    /\ so'.op = "save"
    /\ so'.pc \in { "mkdir", "cookies", "evaluate" }

\* page.cookies() or page.evaluate rejects and saveSessionCookies returns
SaveFailsReadingPage ==
    /\ so.op = "save" /\ so.pc \in { "cookies", "evaluate" }
    /\ so'.pc = "done"

\* C39: if saveSession(id) fails while it reads the cookies or the
\* localStorage from the page, no file is written: from the call to its
\* return every file is as it was, so a session stored for id before is
\* unchanged and, if it was restorable, still is.
C39_FailedSaveWritesNothing ==
    [][(SaveBeforeWrite \/ SaveFailsReadingPage) =>
           /\ files' = files
           /\ saved' = saved
           /\ \A sessionId \in SessionIds :
                  (so'.sessionId = sessionId /\ Restorable(sessionId)) =>
                      Restorable(sessionId)']_vars

\* a session was saved for the id, a second save failed, and the restore
\* that followed found the first session
C39_RestoredAfterFailedSave ==
    /\ so.op = "restore" /\ so.pc = "done" /\ so.result = "true"
    /\ so.before.op = "save" /\ so.before.failed
    /\ saved[so.sessionId].state = "saved"
    /\ Len(so.applied) > 0


\* restoreSessionCookies would report the session file at the path as
\* expired: its stored timestamp is older than the expiry window
ExpiredForRestore(path) ==
    /\ files[path].exists
    /\ files[path].text.valid
    /\ IsExpired(now - JSONParseSession(files[path].text).timestamp)

\* C40: clearExpiredSessions and restoreSession agree on expiry: at every
\* session file the sweep looks at, with a session that parses in it (a
\* file a failed write cut short has no stored timestamp to go by and is
\* left out here), it goes on to delete the file exactly
\* when restoreSession would report the file as expired, so that no file
\* with a stored timestamp older than the expiry window is passed over and
\* no file within the window is deleted.
C40_SweepAgreesWithRestore ==
    [][(ClearStatResolve /\ files[CurrentPath].text.valid) =>
           ((so'.pc = "unlink") <=> ExpiredForRestore(CurrentPath))]_vars

============================================================================
